---- MODULE Spec2Model ----
(***************************************************************************)
(* Model of rosnodejs message generation:                                  *)
(*   src/utils/messageGeneration/MessageManager.ts                         *)
(* The dependency resolver (getFullDependencySet, sortPackageList) is      *)
(* modelled as operators computed the way the code computes them; the      *)
(* build orchestrator (buildPackage, buildPackageTree, loadPackage and the *)
(* writers) is modelled as a state machine over asynchronous tasks.        *)
(* Further specifications cover the command-line entry point (main), the   *)
(* cache loader and the scalar type table, DeserializeStream with          *)
(* PrependLength, and initNode of index.ts.                                *)
(***************************************************************************)
EXTENDS Integers, Sequences, FiniteSets, TLC

(***************************************************************************)
(* Bounds                                                                  *)
(***************************************************************************)
\* number of package names in the universe
NumPkgs == 3
\* most dependency edges (sum of the lengths of all localDeps) of a cache
\* given to the resolver functions
MaxEdges == 4
\* longest list handed to sortPackageList
MaxList == 3
\* most dependency edges of a cache given to the build orchestrator
BuildMaxEdges == 2
\* most top-level build calls issued on the instance
MaxCalls == 2
\* most filesystem operations that fail in one run
MaxFailures == 2
\* most dependency edges of a cache built by two instances side by side
InstanceMaxEdges == 1

\* the packages of an index of definition files, and the message files of
\* one package
IndexPkgs == 2

MaxIndexMessages == 2

\* the messages written to a DeserializeStream, and the bytes of one body
MaxFrames == 2

MaxBody == 2

\* the initNode and reset calls made in one process, and the values of
\* Date.now() an anonymous node name is made from
MaxInits == 3

MaxResets == 1

MaxNow == 1
\* waitForMaster: the clock stops at MaxClock ticks, a sleep lasts at most
\* MaxSleep ticks (and may end one tick late), maxTimeout is at most MaxWait
MaxClock == 6
MaxSleep == 2
MaxWait == 3

Names == 1 .. NumPkgs

VARIABLES
    packageCache,  \* MessageManager._packageCache
    call,          \* the resolver function applied last, with its input
    ret,           \* what that application returned or threw
    loadingPkgs,   \* MessageManager._loadingPkgs
    tasks,         \* the loadPackage invocations that passed the entry check
    calls,         \* the top-level build calls issued on the instance
    disk,          \* how often each output path was written successfully
    failures,      \* filesystem failures so far
    others,        \* the fields and promises of a second MessageManager
    content,       \* the text each output path holds after its last write
    proc,          \* the command-line process: main and generateMessages
    stream,        \* the fields of a DeserializeStream and what it emitted
    socket,        \* the bytes written to that stream
    ros,           \* ThisNode.node and the RosNode objects constructed
    inits,         \* the initNode calls made in the process
    wait           \* one waitForMaster call and the clock it reads

vars == <<packageCache, call, ret, loadingPkgs, tasks, calls, disk, failures,
          others, content, proc, stream, socket, ros,
          inits, wait>>

\* what a build on the instance in hand and the resolver functions leave alone
\* the variables of the library functions beside message generation
utilVars == <<stream, socket, ros, inits, wait>>

sideVars == <<others, proc, utilVars>>

buildVars == <<loadingPkgs, tasks, calls, disk, failures, content>>

(***************************************************************************)
(* Sequence helpers                                                        *)
(***************************************************************************)
Range(s) == { s[i] : i \in DOMAIN s }

IsInjective(s) == \A i, j \in DOMAIN s : s[i] = s[j] => i = j

\* the sequences without repetition over S, of length at most n
InjSeqs(S, n) ==
    UNION { { s \in [1 .. k -> S] : IsInjective(s) } : k \in 0 .. n }

Reverse(s) == [ i \in DOMAIN s |-> s[Len(s) + 1 - i] ]

\* position of x in s (0 when absent)
IndexOf(s, x) == IF x \in Range(s) THEN CHOOSE i \in DOMAIN s : s[i] = x ELSE 0

RECURSIVE SumLens(_, _)
SumLens(f, S) ==
    IF S = {} THEN 0
    ELSE LET x == CHOOSE y \in S : TRUE
         IN  Len(f[x]) + SumLens(f, S \ {x})

(***************************************************************************)
(* The package cache (PackageMap): cache[p] is the entry of package p,     *)
(* with localDeps in Set iteration (insertion) order and the definition    *)
(* names in key order.  DOMAIN cache is the set of keys; a name outside it *)
(* is a package the cache does not hold.                                   *)
(***************************************************************************)
\* the definitions of a package, fixed by its name: package 1 holds two
\* messages, package 2 one service, package 3 nothing, any further package
\* one message and one service
PkgMessages(p) ==
    IF p = 1 THEN <<"M1", "M2">> ELSE IF p <= 3 THEN <<>> ELSE <<"M1">>

PkgServices(p) ==
    IF p = 2 \/ p > 3 THEN <<"S1">> ELSE <<>>

\* fields: spec.fields of the definitions of the package (of every message
\* and of the request and the response of every service)
Entry(p, deps) ==
    [localDeps |-> deps, messages |-> PkgMessages(p),
     services |-> PkgServices(p), actions |-> <<>>, fields |-> <<>>]

\* the caches over the keys K with at most n dependency edges; localDeps
\* never holds its own package
CachesOver(K, n) ==
    { [p \in K |-> Entry(p, d[p])] :
        d \in { e \in [K -> InjSeqs(Names, NumPkgs - 1)] :
                  /\ \A p \in K : p \notin Range(e[p])
                  /\ SumLens(e, K) <= n } }

\* every name is a key, or the last name is absent from the cache
KeySets == { Names, Names \ {NumPkgs} }

Caches == UNION { CachesOver(K, MaxEdges) : K \in KeySets }

LocalDeps(cache, p) == cache[p].localDeps

\* every referenced package is a key
Closed(cache) ==
    \A p \in DOMAIN cache : Range(LocalDeps(cache, p)) \subseteq DOMAIN cache

\* packages reachable from p by one or more localDeps edges
RECURSIVE ReachFrom(_, _, _)
ReachFrom(cache, frontier, seen) ==
    LET next == UNION { IF q \in DOMAIN cache THEN Range(LocalDeps(cache, q)) ELSE {}
                        : q \in frontier }
        new  == next \ seen
    IN  IF new = {} THEN seen ELSE ReachFrom(cache, new, seen \cup new)

Reachable(cache, p) == ReachFrom(cache, {p}, {})

DependsOn(cache, a, b) == b \in Reachable(cache, a)

Acyclic(cache) == \A p \in DOMAIN cache : p \notin Reachable(cache, p)

WellFormed(cache) == Acyclic(cache) /\ Closed(cache)

(***************************************************************************)
(* getFullDependencySet                                                    *)
(* The result is [err, deps]: err is "none" when the call returns, else    *)
(* the error it throws:                                                    *)
(*   "cycle"    new Error('Found circular dependency while building chain')*)
(*   "missing"  TypeError, cache[msgPackage] is undefined                  *)
(*   "overflow" RangeError, the recursion never returns                    *)
(* deps is the Set dependencyList in insertion order.                      *)
(***************************************************************************)
SetAdd(s, x) == IF x \in Range(s) THEN s ELSE Append(s, x)

\* getDependencies(msgPackage) with the localDeps.forEach loop at index i;
\* stack holds the packages whose getDependencies call is active.  Entering
\* a package that is already active repeats the same descent for ever (the
\* traversal keeps no visited set), which ends in a stack overflow.
RECURSIVE getDependencies(_, _, _, _, _, _)
getDependencies(msgPackage, i, originalPackage, cache, dependencyList, stack) ==
    IF msgPackage \notin DOMAIN cache
    THEN [err |-> "missing", deps |-> dependencyList]
    ELSE IF i > Len(cache[msgPackage].localDeps)
    THEN [err |-> "none", deps |-> dependencyList]
    ELSE LET dep == cache[msgPackage].localDeps[i] IN
         IF dep = originalPackage
         THEN [err |-> "cycle", deps |-> dependencyList]
         ELSE LET added == SetAdd(dependencyList, dep) IN
              IF dep \in stack
              THEN [err |-> "overflow", deps |-> added]
              ELSE LET sub == getDependencies(dep, 1, originalPackage, cache,
                                              added, stack \cup {dep})
                   IN  IF sub.err # "none" THEN sub
                       ELSE getDependencies(msgPackage, i + 1, originalPackage,
                                            cache, sub.deps, stack)

\* faulty variant: the traversal stops at the direct dependencies
getFullDependencySet_DirectOnly(originalPackage, cache) ==
    IF originalPackage \notin DOMAIN cache
    THEN [err |-> "missing", deps |-> <<>>]
    ELSE [err |-> "none", deps |-> cache[originalPackage].localDeps]

getFullDependencySet(originalPackage, cache) ==
    getDependencies(originalPackage, 1, originalPackage, cache, <<>>,
                    {originalPackage})

(***************************************************************************)
(* sortPackageList                                                         *)
(* sorter is the comparator; getDeps memoises getFullDependencySet, which  *)
(* changes no result.  A comparator result is [err, order].                *)
(***************************************************************************)
sorter(pkgA, pkgB, cache) ==
    LET aDeps == getFullDependencySet(pkgA, cache)
        bDeps == getFullDependencySet(pkgB, cache)
    IN  IF aDeps.err # "none" THEN [err |-> aDeps.err, order |-> 0]
        ELSE IF bDeps.err # "none" THEN [err |-> bDeps.err, order |-> 0]
        ELSE LET aDependsOnB == pkgB \in Range(aDeps.deps)
                 bDependsOnA == pkgA \in Range(bDeps.deps)
             IN  IF aDependsOnB /\ bDependsOnA
                 THEN [err |-> "sortcycle", order |-> 0]
                 ELSE IF aDependsOnB THEN [err |-> "none", order |-> 1]
                 ELSE IF bDependsOnA THEN [err |-> "none", order |-> -1]
                 ELSE [err |-> "none", order |-> 0]

(***************************************************************************)
(* Array.prototype.sort as the engine runs it (V8, array-sort.tq): for an  *)
(* array shorter than 64 elements the whole array is one run, found by     *)
(* CountAndMakeRun and completed by BinaryInsertionSort.  Indices are      *)
(* 1-based here.  A throwing comparator ends the sort with its error.      *)
(***************************************************************************)
\* the loop of CountAndMakeRun from index idx, with runLength elements in
\* the run so far: [err, len]
RECURSIVE CountRun(_, _, _, _, _)
CountRun(arr, idx, runLength, isDescending, cache) ==
    IF idx > Len(arr) THEN [err |-> "none", len |-> runLength]
    ELSE LET c == sorter(arr[idx], arr[idx - 1], cache) IN
         IF c.err # "none" THEN [err |-> c.err, len |-> runLength]
         ELSE IF isDescending /\ c.order >= 0
         THEN [err |-> "none", len |-> runLength]
         ELSE IF ~isDescending /\ c.order < 0
         THEN [err |-> "none", len |-> runLength]
         ELSE CountRun(arr, idx + 1, runLength + 1, isDescending, cache)

\* [err, len, arr]: the length of the leading run, the run made ascending
CountAndMakeRun(arr, cache) ==
    IF Len(arr) = 1 THEN [err |-> "none", len |-> 1, arr |-> arr]
    ELSE LET first == sorter(arr[2], arr[1], cache) IN
         IF first.err # "none" THEN [err |-> first.err, len |-> 0, arr |-> arr]
         ELSE LET isDescending == first.order < 0
                  run == CountRun(arr, 3, 2, isDescending, cache)
              IN  IF run.err # "none"
                  THEN [err |-> run.err, len |-> 0, arr |-> arr]
                  ELSE [err |-> "none", len |-> run.len,
                        arr |-> IF isDescending
                                THEN Reverse(SubSeq(arr, 1, run.len))
                                     \o SubSeq(arr, run.len + 1, Len(arr))
                                ELSE arr]

\* the binary search of BinaryInsertionSort over arr[left+1 .. right] (left
\* and right as the 0-based bounds of the code): [err, pos]
RECURSIVE BinarySearch(_, _, _, _, _)
BinarySearch(arr, pivot, left, right, cache) ==
    IF left >= right THEN [err |-> "none", pos |-> left]
    ELSE LET mid == left + ((right - left) \div 2)
             c   == sorter(pivot, arr[mid + 1], cache)
         IN  IF c.err # "none" THEN [err |-> c.err, pos |-> left]
             ELSE IF c.order < 0
             THEN BinarySearch(arr, pivot, left, mid, cache)
             ELSE BinarySearch(arr, pivot, mid + 1, right, cache)

\* BinaryInsertionSort with arr[1 .. start] already sorted: [err, list]
RECURSIVE BinaryInsertionSort(_, _, _)
BinaryInsertionSort(arr, start, cache) ==
    IF start >= Len(arr) THEN [err |-> "none", list |-> arr]
    ELSE LET pivot == arr[start + 1]
             found == BinarySearch(arr, pivot, 0, start, cache)
         IN  IF found.err # "none" THEN [err |-> found.err, list |-> arr]
             ELSE BinaryInsertionSort(
                      SubSeq(arr, 1, found.pos) \o <<pivot>>
                          \o SubSeq(arr, found.pos + 1, start)
                          \o SubSeq(arr, start + 2, Len(arr)),
                      start + 1, cache)

\* the run is computed once and handed on as a value
ArraySort(arr, cache) ==
    IF Len(arr) < 2 THEN [err |-> "none", list |-> arr]
    ELSE CHOOSE sorted \in
             { IF run.err # "none" THEN [err |-> run.err, list |-> arr]
               ELSE BinaryInsertionSort(run.arr, run.len, cache)
               : run \in {CountAndMakeRun(arr, cache)} } : TRUE

sortPackageList(packageList, cache) == ArraySort(packageList, cache)

(***************************************************************************)
(* The build orchestrator.                                                 *)
(* One action is one turn of the event loop: the code that runs in it      *)
(* (a top-level call, or the callback of one filesystem operation) and     *)
(* every promise continuation that becomes runnable through it.  An action *)
(* binds each intermediate result once, as "\E x \in {value} : ...".       *)
(*                                                                         *)
(* A task is a loadPackage invocation that passed the entry check:         *)
(*   pkg, call        the package and the top-level call it belongs to     *)
(*   loadDeps, writeFiles   the arguments of the invocation                *)
(*   pc               "awaitDeps"  awaiting the batch of dependency builds *)
(*                    "init"       in initPackageWrite, operation `step`   *)
(*                                 of InitOps in flight                    *)
(*                    "msgs"       in writePackageMessages                 *)
(*                    "srvs"       in writePackageServices                 *)
(*                    "resolved" / "rejected"   the promise is settled     *)
(*   children         the promises of the batch, in order: a task, or 0    *)
(*                    for an invocation that returned at the entry check   *)
(*   pending          the binding files whose writeFile is in flight       *)
(*   err, order       the error the promise rejected with, and the rank of *)
(*                    that failure among the failures of the run           *)
(*   late             a write of the task succeeded after its top-level    *)
(*                    call had rejected                                    *)
(***************************************************************************)
LOADING == "LOADING"
LOADED == "LOADED"

NewTask(packageName, c, loadDeps, writeFiles) ==
    [pkg |-> packageName, call |-> c, loadDeps |-> loadDeps,
     writeFiles |-> writeFiles, pc |-> "awaitDeps", children |-> <<>>,
     step |-> 0, pending |-> {}, err |-> "none", order |-> 0, late |-> FALSE]

\* faulty variant: only a loaded package counts as claimed
HasEntry_LoadedOnly(lp, packageName) == lp[packageName] = LOADED

\* this._loadingPkgs.has(packageName)
HasEntry(lp, packageName) == lp[packageName] # "none"

\* faulty variant: the package is not marked before the first await
MarkLoading_Missing(lp, packageName) == lp

\* this._loadingPkgs.set(packageName, LoadStatus.LOADING)
MarkLoading(lp, packageName) == [lp EXCEPT ![packageName] = LOADING]

\* dependencies.filter(filterDepFunc) with the closure of buildPackage
FilterDeps(dependencies, deps) ==
    LET Fresh(d) == d \notin deps IN SelectSeq(dependencies, Fresh)

NextOrder(ts) ==
    LET used == { ts[t].order : t \in DOMAIN ts } \cup {0}
    IN  1 + CHOOSE m \in used : \A n \in used : n <= m

Reject(task, err, order) ==
    [task EXCEPT !.pc = "rejected", !.err = err, !.order = order]

\* faulty variant: a dependency absent from the cache is passed over
orderedDependencies_IgnoresMissing(packageName, cache) ==
    LET full == getFullDependencySet(packageName, cache)
    IN  IF full.err = "missing" THEN [err |-> "none", list |-> <<>>]
        ELSE IF full.err # "none" THEN [err |-> full.err, list |-> <<>>]
        ELSE sortPackageList(full.deps, cache)

\* faulty variant: the dependencies of a package are all the packages of
\* the cache
orderedDependencies_WholeCache(packageName, cache) ==
    [err |-> "none",
     list |-> CHOOSE q \in InjSeqs(DOMAIN cache, Cardinality(DOMAIN cache)) :
                  /\ Range(q) = DOMAIN cache
                  /\ \A i, j \in DOMAIN q : i < j => q[i] < q[j]]

\* "sortPackageList([...getFullDependencySet(packageName, cache)], cache)":
\* [err, list], err the error either of them throws
orderedDependencies(packageName, cache) ==
    LET full == getFullDependencySet(packageName, cache)
    IN  IF full.err # "none" THEN [err |-> full.err, list |-> <<>>]
        ELSE sortPackageList(full.deps, cache)

\* orderedDependencies of every package name, as loadEach looks it up
DependencyTable(cache) == [p \in Names |-> orderedDependencies(p, cache)]

(***************************************************************************)
(* loadPackage up to its first await, the invocations of its dependency    *)
(* batch included (each runs synchronously inside dependencies.map).  The  *)
(* state s carries the load map, the tasks and the set of the dedup        *)
(* closure of buildPackage; table is DependencyTable of the cache.         *)
(*                                                                         *)
(* loadEach is list.map((name) => this.loadPackage(name, ...)) from index  *)
(* i: it returns the state and the promises of the invocations, in order.  *)
(***************************************************************************)
RECURSIVE loadEach(_, _, _, _, _, _, _, _, _)
loadEach(s, table, list, i, loadDeps, writeFiles, filtered, c, refs) ==
    IF i > Len(list) THEN [s |-> s, refs |-> refs]
    ELSE
    LET packageName == list[i]
        id     == Len(s.tasks) + 1
        marked == [s EXCEPT !.lp = MarkLoading(s.lp, packageName),
                            !.tasks = Append(@, NewTask(packageName, c,
                                                     loadDeps, writeFiles))]
        sorted == table[packageName]
        one ==
            \* if (this._loadingPkgs.has(packageName)) return;
            IF HasEntry(s.lp, packageName) THEN [s |-> s, ref |-> 0]
            ELSE IF ~loadDeps THEN [s |-> marked, ref |-> id]
            ELSE IF sorted.err # "none"
            THEN [s |-> [marked EXCEPT !.tasks[id] =
                             Reject(@, sorted.err, NextOrder(marked.tasks))],
                  ref |-> id]
            ELSE LET batch ==
                         loadEach(
                             IF filtered
                             THEN [marked EXCEPT !.deps = @ \cup Range(sorted.list)]
                             ELSE marked,
                             table,
                             IF filtered THEN FilterDeps(sorted.list, marked.deps)
                             ELSE sorted.list,
                             1, loadDeps, writeFiles, filtered, c, <<>>)
                 IN  [s |-> [batch.s EXCEPT !.tasks[id].children = batch.refs],
                      ref |-> id]
    IN  loadEach(one.s, table, list, i + 1, loadDeps, writeFiles, filtered, c,
                 Append(refs, one.ref))

\* one invocation: [s, ref], ref the task, or 0 when it returned at the
\* entry check
loadPackage(s, table, packageName, loadDeps, writeFiles, filtered, c) ==
    LET r == loadEach(s, table, <<packageName>>, 1, loadDeps, writeFiles,
                      filtered, c, <<>>)
    IN  [s |-> r.s, ref |-> r.refs[1]]

(***************************************************************************)
(* The filesystem operations of one package                                *)
(***************************************************************************)
packageHasMessages(cache, packageName) == Len(cache[packageName].messages) > 0

packageHasServices(cache, packageName) == Len(cache[packageName].services) > 0

packageHasActions(cache, packageName) == Len(cache[packageName].actions) > 0

\* the operations initPackageWrite awaits one after the other, each named
\* by the path it creates: <<package, subdirectory, file>>
InitOps(cache, packageName) ==
    <<  <<packageName, "", "">>  >>
    \o (IF packageHasMessages(cache, packageName)
           \/ packageHasActions(cache, packageName)
        THEN << <<packageName, "msg", "">>, <<packageName, "msg", "_index.js">> >>
        ELSE <<>>)
    \o (IF packageHasServices(cache, packageName)
        THEN << <<packageName, "srv", "">>, <<packageName, "srv", "_index.js">> >>
        ELSE <<>>)
    \o <<  <<packageName, "", "_index.js">>  >>

\* the files writePackageMessages / writePackageServices write in one batch
MessageFiles(cache, packageName) ==
    { <<packageName, "msg", m>> : m \in Range(cache[packageName].messages) }

ServiceFiles(cache, packageName) ==
    { <<packageName, "srv", m>> : m \in Range(cache[packageName].services) }

PackagePaths(cache, packageName) ==
    Range(InitOps(cache, packageName)) \cup MessageFiles(cache, packageName)
        \cup ServiceFiles(cache, packageName)

\* one more successful write of path
Written(d, path) ==
    IF path \in DOMAIN d THEN [d EXCEPT ![path] = @ + 1] ELSE d @@ (path :> 1)

TimesWritten(d, path) == IF path \in DOMAIN d THEN d[path] ELSE 0

(***************************************************************************)
(* The text of the files.  An IndentedWriter is [lines, level]; a line is  *)
(* <<indentation level, words>>.                                           *)
(***************************************************************************)
NewWriter == [lines |-> <<>>, level |-> 0]

write(w, words) == [w EXCEPT !.lines = Append(@, <<w.level, words>>)]

indent(w) == [w EXCEPT !.level = @ + 1]

dedent(w) == [w EXCEPT !.level = @ - 1]

\* messages.forEach((message) => w.write("%s: require('./%s.js'),", ...))
RECURSIVE writeRequires(_, _, _)
writeRequires(w, messages, i) ==
    IF i > Len(messages) THEN w
    ELSE writeRequires(write(w, <<"require", messages[i]>>), messages, i + 1)

\* faulty variant: the entries are listed last to first
createIndex_Reversed(cache, packageName, msgKey) ==
    LET messages == Reverse(cache[packageName][msgKey])
        w == writeRequires(indent(write(NewWriter, <<"module.exports = {">>)),
                           messages, 1)
    IN  write(dedent(w), <<"};">>).lines

\* createIndex(packageName, directory, msgKey): the text of msgKey's _index.js
createIndex(cache, packageName, msgKey) ==
    LET messages == cache[packageName][msgKey]
        w == writeRequires(indent(write(NewWriter, <<"module.exports = {">>)),
                           messages, 1)
    IN  write(dedent(w), <<"};">>).lines

\* faulty variant: the package index refers to both subdirectories whatever
\* the package holds
createPackageIndex_RequiresBoth(cache, packageName) ==
    LET w0 == indent(write(NewWriter, <<"module.exports = {">>))
        w1 == write(w0, <<"msg", "./msg/_index.js">>)
        w2 == write(w1, <<"srv", "./srv/_index.js">>)
    IN  write(dedent(w2), <<"};">>).lines

\* createPackageIndex(packageName, directory): the text of the package's
\* _index.js
createPackageIndex(cache, packageName) ==
    LET hasMessages == packageHasMessages(cache, packageName)
                           \/ packageHasActions(cache, packageName)
        hasServices == packageHasServices(cache, packageName)
        w0 == indent(write(NewWriter, <<"module.exports = {">>))
        w1 == IF hasMessages THEN write(w0, <<"msg", "./msg/_index.js">>) ELSE w0
        w2 == IF hasServices THEN write(w1, <<"srv", "./srv/_index.js">>) ELSE w1
    IN  write(dedent(w2), <<"};">>).lines

\* spec.generateMessageClassFile(): the code generator's text for one
\* definition, a function of the definition alone
generateMessageClassFile(path) == << <<0, <<"class", path[1], path[2], path[3]>>>> >>

\* what the operation of initPackageWrite that creates path leaves there
InitOpText(cache, path) ==
    IF path[3] = "" THEN "directory"
    ELSE IF path[2] = "msg" THEN createIndex(cache, path[1], "messages")
    ELSE IF path[2] = "srv" THEN createIndex(cache, path[1], "services")
    ELSE createPackageIndex(cache, path[1])

\* fs.writeFile(path, text) done
Put(c, path, text) ==
    [q \in DOMAIN c \cup {path} |-> IF q = path THEN text ELSE c[q]]

(***************************************************************************)
(* loadPackage after the dependency batch                                  *)
(***************************************************************************)
\* faulty variant: the finished package is deleted from the load map
Finish_ForgetsPackage(s, t) ==
    [s EXCEPT !.lp[s.tasks[t].pkg] = "none", !.tasks[t].pc = "resolved"]

\* this._loadingPkgs.set(packageName, LoadStatus.LOADED): the task resolves
Finish(s, t) ==
    [s EXCEPT !.lp[s.tasks[t].pkg] = LOADED, !.tasks[t].pc = "resolved"]

\* faulty variant: the service bindings are never written
StartServices_Skipped(s, cache, t) == Finish(s, t)

\* writePackageServices
StartServices(s, cache, t) ==
    IF packageHasServices(cache, s.tasks[t].pkg)
    THEN [s EXCEPT !.tasks[t].pc = "srvs",
                   !.tasks[t].pending = @ \cup ServiceFiles(cache, s.tasks[t].pkg)]
    ELSE Finish(s, t)

\* faulty variant: the package is set to loaded before its bindings are
\* written
StartMessages_LoadedFirst(s, cache, t) ==
    IF packageHasMessages(cache, s.tasks[t].pkg)
    THEN [s EXCEPT !.lp[s.tasks[t].pkg] = LOADED,
                   !.tasks[t].pc = "msgs",
                   !.tasks[t].pending = @ \cup MessageFiles(cache, s.tasks[t].pkg)]
    ELSE StartServices(s, cache, t)

\* writePackageMessages
StartMessages(s, cache, t) ==
    IF packageHasMessages(cache, s.tasks[t].pkg)
    THEN [s EXCEPT !.tasks[t].pc = "msgs",
                   !.tasks[t].pending = @ \cup MessageFiles(cache, s.tasks[t].pkg)]
    ELSE StartServices(s, cache, t)

\* the batch resolved: "if (writeFiles) { await this.initPackageWrite(...)"
Resume(task) ==
    IF task.writeFiles THEN [task EXCEPT !.pc = "init", !.step = 1]
    ELSE [task EXCEPT !.pc = "resolved"]

\* faulty variant: an invocation that returned at the entry check counts
\* as pending for as long as the package is not loaded by someone else
PromiseState_WaitsForOthers(ts, ref) ==
    IF ref = 0 THEN "pending"
    ELSE IF ts[ref].pc \in {"resolved", "rejected"} THEN ts[ref].pc
    ELSE "pending"

\* the state of a promise of a batch
PromiseState(ts, ref) ==
    IF ref = 0 THEN "resolved"
    ELSE IF ts[ref].pc \in {"resolved", "rejected"} THEN ts[ref].pc
    ELSE "pending"

\* faulty variant: the batch waits for every member and ignores rejections
AllState_IgnoresRejections(ts, refs) ==
    IF \A i \in DOMAIN refs : PromiseState(ts, refs[i]) # "pending" THEN "resolved"
    ELSE "pending"

\* Promise.all over refs: rejected with the first rejection, resolved when
\* every member is resolved
AllState(ts, refs) ==
    IF \E i \in DOMAIN refs : PromiseState(ts, refs[i]) = "rejected" THEN "rejected"
    ELSE IF \A i \in DOMAIN refs : PromiseState(ts, refs[i]) = "resolved" THEN "resolved"
    ELSE "pending"

FirstRejected(ts, refs) ==
    LET i == CHOOSE j \in DOMAIN refs :
                 /\ PromiseState(ts, refs[j]) = "rejected"
                 /\ \A k \in 1 .. j - 1 : PromiseState(ts, refs[k]) # "rejected"
    IN  refs[i]

\* "await Promise.all(...)" in loadPackage, for every task it wakes
RECURSIVE Drain(_)
Drain(ts) ==
    LET woken == { t \in DOMAIN ts : /\ ts[t].pc = "awaitDeps"
                                      /\ AllState(ts, ts[t].children) # "pending" }
    IN  IF woken = {} THEN ts
        ELSE LET t == CHOOSE u \in woken : \A v \in woken : u <= v
                 r == IF AllState(ts, ts[t].children) = "rejected"
                      THEN LET f == FirstRejected(ts, ts[t].children)
                           IN  Reject(ts[t], ts[f].err, ts[f].order)
                      ELSE Resume(ts[t])
             IN  Drain([ts EXCEPT ![t] = r])

\* the awaits of buildPackage and buildPackageTree
SettleCall(ts, cl) ==
    IF cl.status # "loading" THEN cl
    ELSE IF AllState(ts, cl.roots) = "rejected"
    THEN LET f == FirstRejected(ts, cl.roots)
         IN  [cl EXCEPT !.status = "rejected", !.err = ts[f].err,
                        !.order = ts[f].order]
    ELSE IF AllState(ts, cl.roots) = "resolved"
    THEN [cl EXCEPT !.status = "resolved"]
    ELSE cl

\* run every continuation made runnable: the new tasks and calls
Settle(ts, cs) ==
    LET drained == Drain(ts)
    IN  [tasks |-> drained,
         calls |-> [c \in DOMAIN cs |-> SettleCall(drained, cs[c])]]

(***************************************************************************)
(* Top-level calls.  A call is                                             *)
(*   kind, pkg, writeFiles   the method and its arguments                  *)
(*   status   "initTree"  awaiting initTree                                *)
(*            "loading"   awaiting loadPackage / the batch over all keys   *)
(*            "resolved" / "rejected"                                      *)
(*   roots    the promises it awaits                                       *)
(*   fresh    no package had a load state when its loading began           *)
(* initTree rebuilds the cache from the same package index on every call,  *)
(* so packageCache is the cache every call works on.                       *)
(***************************************************************************)
NewCall(kind, packageName, writeFiles) ==
    [kind |-> kind, pkg |-> packageName, writeFiles |-> writeFiles,
     status |-> "initTree", roots |-> <<>>, err |-> "none", order |-> 0,
     fresh |-> FALSE]

\* Object.keys(this._packageCache)
RECURSIVE SortedSeq(_)
SortedSeq(S) ==
    IF S = {} THEN <<>>
    ELSE LET m == CHOOSE x \in S : \A y \in S : x <= y
         IN  <<m>> \o SortedSeq(S \ {m})

Keys(cache) == SortedSeq(DOMAIN cache)

IsFresh(lp) == \A p \in Names : lp[p] = "none"

\* buildPackage(packageName, outputDirectory) up to "await this.initTree()"
buildPackage(packageName) ==
    /\ Len(calls) < MaxCalls
    /\ calls' = Append(calls, NewCall("buildPackage", packageName, TRUE))
    /\ UNCHANGED <<sideVars, packageCache, call, ret, loadingPkgs, tasks, disk, content, failures>>

\* buildPackageTree(outputDirectory, writeFiles) up to "await this.initTree()"
buildPackageTree(writeFiles) ==
    /\ Len(calls) < MaxCalls
    /\ calls' = Append(calls, NewCall("buildPackageTree", 0, writeFiles))
    /\ UNCHANGED <<sideVars, packageCache, call, ret, loadingPkgs, tasks, disk, content, failures>>

\* buildPackage after initTree: loadPackage(packageName, outputDirectory,
\* true, true, filter)
buildPackageLoad(c) ==
    /\ calls[c].status = "initTree"
    /\ calls[c].kind = "buildPackage"
    /\ \E table \in {DependencyTable(packageCache)} :
       \E r \in {loadPackage([lp |-> loadingPkgs, tasks |-> tasks, deps |-> {}],
                             table, calls[c].pkg, TRUE, TRUE, TRUE, c)} :
       \E st \in {Settle(r.s.tasks,
                          [calls EXCEPT ![c].status = "loading",
                                        ![c].roots = <<r.ref>>,
                                        ![c].fresh = IsFresh(loadingPkgs)])} :
           /\ loadingPkgs' = r.s.lp
           /\ tasks' = st.tasks
           /\ calls' = st.calls
    /\ UNCHANGED <<sideVars, packageCache, call, ret, disk, content, failures>>

\* faulty variant: the tree build resolves the dependencies of every key
buildPackageTreeLoad_ResolvesDependencies(c) ==
    /\ calls[c].status = "initTree"
    /\ calls[c].kind = "buildPackageTree"
    /\ \E table \in {DependencyTable(packageCache)} :
       \E r \in {loadEach([lp |-> loadingPkgs, tasks |-> tasks, deps |-> {}],
                          table, Keys(packageCache), 1, TRUE,
                          calls[c].writeFiles, FALSE, c, <<>>)} :
       \E st \in {Settle(r.s.tasks,
                          [calls EXCEPT ![c].status = "loading",
                                        ![c].roots = r.refs,
                                        ![c].fresh = IsFresh(loadingPkgs)])} :
           /\ loadingPkgs' = r.s.lp
           /\ tasks' = st.tasks
           /\ calls' = st.calls
    /\ UNCHANGED <<sideVars, packageCache, call, ret, disk, content, failures>>

\* buildPackageTree after initTree: loadPackage(pkgName, outputDirectory,
\* false, writeFiles) for every key, as one batch
buildPackageTreeLoad(c) ==
    /\ calls[c].status = "initTree"
    /\ calls[c].kind = "buildPackageTree"
    /\ \E table \in {DependencyTable(packageCache)} :
       \E r \in {loadEach([lp |-> loadingPkgs, tasks |-> tasks, deps |-> {}],
                          table, Keys(packageCache), 1, FALSE,
                          calls[c].writeFiles, FALSE, c, <<>>)} :
       \E st \in {Settle(r.s.tasks,
                          [calls EXCEPT ![c].status = "loading",
                                        ![c].roots = r.refs,
                                        ![c].fresh = IsFresh(loadingPkgs)])} :
           /\ loadingPkgs' = r.s.lp
           /\ tasks' = st.tasks
           /\ calls' = st.calls
    /\ UNCHANGED <<sideVars, packageCache, call, ret, disk, content, failures>>

(***************************************************************************)
(* Filesystem callbacks                                                    *)
(***************************************************************************)
\* a write of task t succeeded: note whether its call had rejected by then
AfterWrite(ts, cs, t) ==
    [ts EXCEPT ![t].late = @ \/ cs[ts[t].call].status = "rejected"]

\* the operation in flight of initPackageWrite succeeds (for a directory:
\* it is created, or exists already)
InitOpSucceeds(t) ==
    /\ tasks[t].pc = "init"
    /\ \E ops \in {InitOps(packageCache, tasks[t].pkg)} :
       \E s0 \in {[lp |-> loadingPkgs, tasks |-> AfterWrite(tasks, calls, t)]} :
       \E s1 \in {IF tasks[t].step < Len(ops)
                   THEN [s0 EXCEPT !.tasks[t].step = @ + 1]
                   ELSE StartMessages(s0, packageCache, t)} :
       \E st \in {Settle(s1.tasks, calls)} :
           /\ disk' = Written(disk, ops[tasks[t].step])
           /\ content' = Put(content, ops[tasks[t].step],
                              InitOpText(packageCache, ops[tasks[t].step]))
           /\ loadingPkgs' = s1.lp
           /\ tasks' = st.tasks
           /\ calls' = st.calls
    /\ UNCHANGED <<sideVars, packageCache, call, ret, failures>>

\* faulty variant: a failed build removes its package from the load map
InitOpFails_CleansUp(t) ==
    /\ tasks[t].pc = "init"
    /\ failures < MaxFailures
    /\ failures' = failures + 1
    /\ loadingPkgs' = [loadingPkgs EXCEPT ![tasks[t].pkg] = "none"]
    /\ \E st \in {Settle([tasks EXCEPT ![t] = Reject(@, "fs", NextOrder(tasks))],
                          calls)} :
           /\ tasks' = st.tasks
           /\ calls' = st.calls
    /\ UNCHANGED <<sideVars, packageCache, call, ret, disk, content>>

\* the operation in flight of initPackageWrite fails
InitOpFails(t) ==
    /\ tasks[t].pc = "init"
    /\ failures < MaxFailures
    /\ failures' = failures + 1
    /\ \E st \in {Settle([tasks EXCEPT ![t] = Reject(@, "fs", NextOrder(tasks))],
                          calls)} :
           /\ tasks' = st.tasks
           /\ calls' = st.calls
    /\ UNCHANGED <<sideVars, packageCache, call, ret, loadingPkgs, disk, content>>

\* writeFile of the binding file f succeeds
BindingWriteSucceeds(t, f) ==
    /\ f \in tasks[t].pending
    /\ \E s0 \in {[lp |-> loadingPkgs,
                    tasks |-> [AfterWrite(tasks, calls, t)
                                   EXCEPT ![t].pending = @ \ {f}]]} :
       \E s1 \in {IF s0.tasks[t].pending # {} THEN s0
                   ELSE IF tasks[t].pc = "msgs"
                   THEN StartServices(s0, packageCache, t)
                   ELSE IF tasks[t].pc = "srvs" THEN Finish(s0, t)
                   ELSE s0} :
       \E st \in {Settle(s1.tasks, calls)} :
           /\ disk' = Written(disk, f)
           /\ content' = Put(content, f, generateMessageClassFile(f))
           /\ loadingPkgs' = s1.lp
           /\ tasks' = st.tasks
           /\ calls' = st.calls
    /\ UNCHANGED <<sideVars, packageCache, call, ret, failures>>

\* faulty variant: a failed write cancels the other writes of its batch
BindingWriteFails_CancelsBatch(t, f) ==
    /\ f \in tasks[t].pending
    /\ failures < MaxFailures
    /\ failures' = failures + 1
    /\ \E ts \in {IF tasks[t].pc \in {"msgs", "srvs"}
                   THEN [tasks EXCEPT ![t] = [Reject(@, "fs", NextOrder(tasks))
                                                 EXCEPT !.pending = {}]]
                   ELSE [tasks EXCEPT ![t].pending = @ \ {f}]} :
       \E st \in {Settle(ts, calls)} :
           /\ tasks' = st.tasks
           /\ calls' = st.calls
    /\ UNCHANGED <<sideVars, packageCache, call, ret, loadingPkgs, disk, content>>

\* writeFile of the binding file f fails: the batch rejects at once, the
\* other writes of the batch stay in flight
BindingWriteFails(t, f) ==
    /\ f \in tasks[t].pending
    /\ failures < MaxFailures
    /\ failures' = failures + 1
    /\ \E left \in {[tasks EXCEPT ![t].pending = @ \ {f}]} :
       \E ts \in {IF tasks[t].pc \in {"msgs", "srvs"}
                   THEN [left EXCEPT ![t] = Reject(@, "fs", NextOrder(tasks))]
                   ELSE left} :
       \E st \in {Settle(ts, calls)} :
           /\ tasks' = st.tasks
           /\ calls' = st.calls
    /\ UNCHANGED <<sideVars, packageCache, call, ret, loadingPkgs, disk, content>>

BuildCaches == UNION { CachesOver(K, BuildMaxEdges) : K \in KeySets }

IdleBuild ==
    /\ loadingPkgs = [p \in Names |-> "none"]
    /\ tasks = <<>>
    /\ calls = <<>>
    /\ disk = <<>>
    /\ content = <<>>
    /\ failures = 0

\* new MessageManager(): _loadingPkgs = new Map(), nothing issued
NewInstance ==
    [loadingPkgs |-> [p \in Names |-> "none"], tasks |-> <<>>, calls |-> <<>>]

\* the command-line process before main has parsed its arguments
\* (types is args.types, generateTypes the option main passes on)
NoProcess ==
    [pc |-> "start", pkg |-> 0, types |-> FALSE, generateTypes |-> FALSE,
     step |-> 0, exited |-> FALSE, status |-> 0]

(***************************************************************************)
(* DeserializeStream and PrependLength.                                    *)
(* A Buffer is the sequence of its bytes; positions are 0-based as in the  *)
(* code.  `emitted` collects the 'message' events: the tuple of the        *)
(* arguments of each emit, in order.                                       *)
(***************************************************************************)
\* the value of _serviceRespSuccess while no success byte is held
null == -1

\* chunk.slice(start, end)
slice(buffer, start, end) ==
    LET e == IF end > Len(buffer) THEN Len(buffer) ELSE end
    IN  SubSeq(buffer, start + 1, e)

RECURSIVE Flatten(_, _)
Flatten(list, i) ==
    IF i > Len(list) THEN <<>> ELSE list[i] \o Flatten(list, i + 1)

\* Buffer.concat(list, totalLength): cut, or filled with zeros, to the
\* length given
concat(list, totalLength) ==
    LET all == Flatten(list, 1)
    IN  [ i \in 1 .. totalLength |-> IF i <= Len(all) THEN all[i] ELSE 0 ]

readUInt32LE(buffer) ==
    buffer[1] + 256 * buffer[2] + 65536 * buffer[3] + 16777216 * buffer[4]

writeUInt32LE(value) ==
    << value % 256, (value \div 256) % 256, (value \div 65536) % 256,
       (value \div 16777216) % 256 >>

PrependLength(buffer) == writeUInt32LE(Len(buffer)) \o buffer

\* the stream after its constructor
NewStream ==
    [ inBody |-> FALSE, messageConsumed |-> 0, messageLen |-> -1,
      messageBuffer |-> <<>>, deserializeServiceResp |-> FALSE,
      serviceRespSuccess |-> null, emitted |-> <<>> ]

emitMessage(s, buffer) ==
    IF s.deserializeServiceResp
    THEN [s EXCEPT !.emitted = Append(@, <<buffer, s.serviceRespSuccess>>),
                   !.serviceRespSuccess = null]
    ELSE [s EXCEPT !.emitted = Append(@, <<buffer>>)]

\* faulty variant: an empty message at the end of a chunk is not emitted
afterLength_WaitsForBody(s, pos, chunkLen) ==
    [s EXCEPT !.inBody = TRUE]

\* _transform once the length field is read: "if (this._messageLen === 0
\* && pos === chunkLen)"
afterLength(s, pos, chunkLen) ==
    IF s.messageLen = 0 /\ pos = chunkLen
    THEN emitMessage(s, <<>>)
    ELSE [s EXCEPT !.inBody = TRUE]

\* the body of the while loop of _transform when in the body of a message:
\* the stream and pos after it
inBodyStep(s, chunk, pos) ==
    LET chunkLen == Len(chunk)
        messageRemaining == s.messageLen - s.messageConsumed
    IN  IF chunkLen >= messageRemaining + pos
        THEN LET list == Append(s.messageBuffer,
                                slice(chunk, pos, pos + messageRemaining))
                 e == emitMessage([s EXCEPT !.messageBuffer = list],
                                  concat(list, s.messageLen))
             IN  [ s |-> [e EXCEPT !.messageBuffer = <<>>, !.inBody = FALSE,
                                   !.messageConsumed = 0],
                   pos |-> pos + messageRemaining ]
        ELSE [ s |-> [s EXCEPT !.messageBuffer =
                                   Append(@, slice(chunk, pos, chunkLen)),
                               !.messageConsumed = @ + chunkLen - pos],
               pos |-> chunkLen ]

\* the first byte of a service response is the success byte
readSuccess(s, chunk, pos) ==
    IF s.deserializeServiceResp /\ s.serviceRespSuccess = null
    THEN [ s |-> [s EXCEPT !.serviceRespSuccess = chunk[pos + 1]],
           pos |-> pos + 1 ]
    ELSE [ s |-> s, pos |-> pos ]

\* the body of the while loop when at the length field
lengthStep(s0, chunk, pos0) ==
    LET chunkLen == Len(chunk)
        r == readSuccess(s0, chunk, pos0)
        s == r.s
        pos == r.pos
        bufLen == Len(Flatten(s.messageBuffer, 1))
    IN  IF chunkLen - pos >= 4 - bufLen
        THEN LET list == Append(s.messageBuffer,
                                slice(chunk, pos, pos + 4 - bufLen))
                 len == readUInt32LE(concat(list, 4))
             IN  [ s |-> afterLength([s EXCEPT !.messageLen = len,
                                               !.messageBuffer = <<>>],
                                     pos + 4 - bufLen, chunkLen),
                   pos |-> pos + 4 - bufLen ]
        ELSE [ s |-> [s EXCEPT !.messageBuffer =
                                   Append(@, slice(chunk, pos, chunkLen))],
               pos |-> chunkLen ]

\* "while (pos < chunkLen)"
RECURSIVE transformLoop(_, _, _)
transformLoop(s, chunk, pos) ==
    IF pos >= Len(chunk) THEN s
    ELSE LET r == IF s.inBody THEN inBodyStep(s, chunk, pos)
                  ELSE lengthStep(s, chunk, pos)
         IN  transformLoop(r.s, chunk, r.pos)

transform(s, chunk) == transformLoop(s, chunk, 0)

\* what the peer writes: the frames of its messages, each after its success
\* byte (1, the call succeeded) when the stream carries service responses
Bytes == {0, 1}

Bodies == UNION { [1 .. n -> Bytes] : n \in 0 .. MaxBody }

FrameSeqs == UNION { [1 .. n -> Bodies] : n \in 1 .. MaxFrames }

RECURSIVE Wire(_, _, _)
Wire(frames, service, i) ==
    IF i > Len(frames) THEN <<>>
    ELSE (IF service THEN <<1>> ELSE <<>>)
         \o PrependLength(frames[i]) \o Wire(frames, service, i + 1)

NoSocket ==
    [ frames |-> <<>>, service |-> FALSE, wire |-> <<>>, fed |-> 0,
      splitLength |-> FALSE ]

(***************************************************************************)
(* rosnodejs.initNode (index.ts).                                          *)
(* ros.node is ThisNode.node: 0 for null, else the position in ros.nodes   *)
(* of the RosNode it refers to.  ros.nodes holds every RosNode constructed *)
(* in the process, each with the number of reset() calls before it.        *)
(* inits holds the initNode calls: the position of each in its body (pc:   *)
(* "yield" and "onTheFly" for the await of _loadOnTheFlyMessages without   *)
(* and with options.onTheFly, the awaits of waitForMaster, "rosOptions",   *)
(* "rosTime", "shutdown" for the await of the catch block, "resolved",     *)
(* "rejected"), the node its getMasterUri call in flight was made on, the  *)
(* node its handle refers to once resolved, the error once rejected.       *)
(* An argument of initNode is held with its typeof and its text.           *)
(* ThisNode.ok, ThisNode.getNodeName and ThisNode.shutdown belong to       *)
(* lib/ThisNode: ok() is "a node is set and it is not shut down",          *)
(* shutdown() shuts that node down when ok().                              *)
(***************************************************************************)
NoRos == [node |-> 0, nodes |-> <<>>, resets |-> 0]

NodeNames == {"", "a", "b"}

\* the values passed as nodeName: the strings of NodeNames and a number
NodeNameArgs ==
    { [typeof |-> "string", value |-> n] : n \in NodeNames }
        \cup { [typeof |-> "number", value |-> "5"] }

\* _resolveNodeName without remappings: the name in the root namespace,
\* with the process id and Date.now() appended for an anonymous node
resolveNodeName(nodeName, anonymous, now) ==
    [ns |-> "/", name |-> nodeName, suffix |-> IF anonymous THEN now ELSE 0]

ok(r) == r.node # 0 /\ ~r.nodes[r.node].isShutdown

getNodeName(r) == r.nodes[r.node].name

\* new RosNode(resolvedName, ...)
RosNode(r, resolvedName) ==
    [name |-> resolvedName, isShutdown |-> FALSE, resets |-> r.resets,
     serversReady |-> FALSE, master |-> FALSE]

\* ThisNode.shutdown()
ThisNodeShutdown(r) ==
    IF ok(r) THEN [r EXCEPT !.nodes[r.node].isShutdown = TRUE] ELSE r

\* faulty variant: a node is constructed whether or not one is set
claimNode_AlwaysCreates(r, resolvedName) ==
    [ ros |-> [r EXCEPT !.nodes = Append(@, RosNode(r, resolvedName)),
                        !.node = Len(r.nodes) + 1],
      outcome |-> "created" ]

\* initNode from "if (ThisNode.node !== null)" to "ThisNode.node = new
\* RosNode(...)": the process state after it and how the call goes on
claimNode(r, resolvedName) ==
    IF r.node # 0
    THEN IF resolvedName = getNodeName(r)
         THEN [ros |-> r, outcome |-> "handle"]
         ELSE [ros |-> r, outcome |-> "exists"]
    ELSE [ ros |-> [r EXCEPT !.nodes = Append(@, RosNode(r, resolvedName)),
                             !.node = Len(r.nodes) + 1],
           outcome |-> "created" ]

NewInit(nodeName, resolvedName, timeout) ==
    [ nodeName |-> nodeName, resolvedName |-> resolvedName,
      timeout |-> timeout, pc |-> "start", asked |-> 0, handle |-> 0,
      err |-> "none" ]

(***************************************************************************)
(* waitForMaster(timeout, maxTimeout).  wait holds                         *)
(*   pc          "idle", the await the call is in ("sleepFirst",           *)
(*               "sleepServers", "getMasterUri", "sleepRetry"),            *)
(*               "returned" or "thrown"                                    *)
(*   now         Date.now(), in ticks                                      *)
(*   startTime   Date.now() when the call was made                         *)
(*   attempts    the getMasterUri calls made, lastAttempt the time of the  *)
(*               last one, asked the node it was made on                   *)
(*   err         the message of the error thrown                           *)
(* serversReady and master of a node say that its slave API server         *)
(* listens and that the master has answered getMasterUri.                  *)
(***************************************************************************)
NoWait ==
    [pc |-> "idle", timeout |-> 0, maxTimeout |-> -1, now |-> 0,
     startTime |-> 0, attempts |-> 0, lastAttempt |-> 0, asked |-> 0,
     err |-> "none"]

Throw(w, err) == [w EXCEPT !.pc = "thrown", !.err = err]

\* maxTimeout >= 0 && Date.now() - startTime >= maxTimeout
timedOut(w) == w.maxTimeout >= 0 /\ w.now - w.startTime >= w.maxTimeout

\* the head of "while (ThisNode.ok())" up to the await of getMasterUri, or
\* past the loop to the end of the function
masterLoop(w, r) ==
    IF ok(r)
    THEN [w EXCEPT !.pc = "getMasterUri", !.attempts = @ + 1,
                   !.lastAttempt = w.now, !.asked = r.node]
    ELSE Throw(w, "Shutdown during initialization")

\* the head of "while (ThisNode.ok() && !ThisNode.node.serversReady())" up
\* to the next await
serversLoop(w, r) ==
    IF ok(r) /\ ~r.nodes[r.node].serversReady
    THEN IF timedOut(w) THEN Throw(w, "Unable to setup slave API server.")
         ELSE [w EXCEPT !.pc = "sleepServers"]
    ELSE masterLoop(w, r)

\* after "break": the test that ends the function
afterBreak(w, r) ==
    IF ok(r) THEN [w EXCEPT !.pc = "returned"]
    ELSE Throw(w, "Shutdown during initialization")

\* the catch block of the attempt
catchAttempt(w, r) ==
    IF ok(r)
    THEN IF timedOut(w) THEN Throw(w, "Registration with master timed out.")
         ELSE [w EXCEPT !.pc = "sleepRetry"]
    ELSE Throw(w, "Shutdown during initialization")

\* the master has answered the getMasterUri call made on node n
MasterReached(r, n) == [r EXCEPT !.nodes[n].master = TRUE]

IdleSide ==
    /\ others = NewInstance
    /\ proc = NoProcess
    /\ stream = NewStream
    /\ socket = NoSocket
    /\ ros = NoRos
    /\ inits = <<>>
    /\ wait = NoWait

NoCall == [fn |-> "none", pkg |-> 0, list |-> <<>>]

NoRet == [err |-> "none", list |-> <<>>]

Init ==
    /\ packageCache \in BuildCaches
    /\ call = NoCall
    /\ ret = NoRet
    /\ IdleBuild
    /\ IdleSide

Next ==
    \/ \E p \in Names : buildPackage(p)
    \/ \E w \in BOOLEAN : buildPackageTree(w)
    \/ \E c \in DOMAIN calls : buildPackageLoad(c)
    \/ \E c \in DOMAIN calls : buildPackageTreeLoad(c)
    \/ \E t \in DOMAIN tasks : InitOpSucceeds(t)
    \/ \E t \in DOMAIN tasks : InitOpFails(t)
    \/ \E t \in DOMAIN tasks : \E f \in tasks[t].pending : BindingWriteSucceeds(t, f)
    \/ \E t \in DOMAIN tasks : \E f \in tasks[t].pending : BindingWriteFails(t, f)

Spec == Init /\ [][Next]_vars

(***************************************************************************)
(* Properties of the build orchestrator                                    *)
(***************************************************************************)
TasksOf(p) == { t \in DOMAIN tasks : tasks[t].pkg = p }

TreeOf(c) == { t \in DOMAIN tasks : tasks[t].call = c }

Closure(p) == Reachable(packageCache, p)

\* the task has issued its first filesystem operation
Writing(task) ==
    \/ task.pc \in {"init", "msgs", "srvs"}
    \/ task.step > 0

AllWrittenOnce(p) ==
    \A path \in PackagePaths(packageCache, p) : TimesWritten(disk, path) = 1

\* C4: at most one task per package passes the entry check, whatever the
\* interleaving of the build calls, and no output path is written twice.
C4_OneTaskPerPackage ==
    /\ \A p \in Names : Cardinality(TasksOf(p)) <= 1
    /\ \A path \in DOMAIN disk : disk[path] <= 1

\* two builds in progress at once whose closures share a package, which
\* was written
C4_Witness ==
    \E c1, c2 \in DOMAIN calls :
        /\ c1 # c2
        /\ calls[c1].kind = "buildPackage" /\ calls[c2].kind = "buildPackage"
        /\ calls[c1].pkg # calls[c2].pkg
        /\ calls[c1].status = "loading" /\ calls[c2].status = "loading"
        /\ \E d \in Closure(calls[c1].pkg) \cap Closure(calls[c2].pkg) :
              /\ d \in DOMAIN packageCache
              /\ Cardinality(TasksOf(d)) = 1
              /\ loadingPkgs[d] = LOADED

\* C5: when a buildPackage(P) call has resolved on an acyclic cache, P and
\* every package of the closure of P are loaded.
C5_ResolvedBuildLoadedClosure ==
    \A c \in DOMAIN calls :
        ( /\ calls[c].kind = "buildPackage"
          /\ calls[c].status = "resolved"
          /\ WellFormed(packageCache) )
        => \A q \in {calls[c].pkg} \cup Closure(calls[c].pkg) :
               loadingPkgs[q] = LOADED

\* C6: a package built with dependency loading starts writing only when
\* every package of its own closure is loaded.
C6_WritesAfterOwnClosureLoaded ==
    \A t \in DOMAIN tasks :
        (tasks[t].loadDeps /\ tasks[t].pc \in {"init", "msgs", "srvs"})
        => \A q \in Closure(tasks[t].pkg) : loadingPkgs[q] = LOADED

\* C7: an invocation for a package that has a load state returns at once:
\* no task is started for it and its load state is unchanged, and a
\* buildPackage call for it resolves without error, writing nothing and
\* leaving the load map and the tasks as they were.
C7_EntryCheckStep ==
    \A c \in DOMAIN calls :
        (calls[c].status = "initTree" /\ calls'[c].status # "initTree")
        => /\ \A p \in Names :
                 loadingPkgs[p] # "none"
                 => /\ loadingPkgs'[p] = loadingPkgs[p]
                    /\ \A t \in DOMAIN tasks' \ DOMAIN tasks : tasks'[t].pkg # p
           /\ ( calls[c].kind = "buildPackage"
                /\ loadingPkgs[calls[c].pkg] # "none" )
              => /\ calls'[c].status = "resolved"
                 /\ calls'[c].err = "none"
                 /\ UNCHANGED <<loadingPkgs, tasks, disk, content>>

C7_EntryCheckReturnsAtOnce == [][C7_EntryCheckStep]_vars

\* a buildPackage call that resolved at the entry check while the package
\* was still loading
C7_Witness ==
    \E c \in DOMAIN calls :
        /\ calls[c].kind = "buildPackage"
        /\ calls[c].status = "resolved"
        /\ calls[c].roots = <<0>>
        /\ loadingPkgs[calls[c].pkg] = LOADING

MinOrder(S) == CHOOSE m \in S : \A n \in S : m <= n

FailedOrders(c) == { tasks[t].order : t \in { u \in TreeOf(c) : tasks[u].order > 0 } }

\* C8: when a task of a call tree has failed the top-level call is rejected
\* with the first failure of the tree, and a task that was rejected before
\* it wrote (it threw, or the batch it awaited failed) leaves its package
\* unwritten and loading.
C8_FailurePropagates ==
    /\ \A c \in DOMAIN calls :
          (calls[c].status # "initTree" /\ FailedOrders(c) # {})
          => /\ calls[c].status = "rejected"
             /\ calls[c].order = MinOrder(FailedOrders(c))
             /\ \E t \in TreeOf(c) : /\ tasks[t].order = calls[c].order
                                     /\ tasks[t].err = calls[c].err
    /\ \A t \in DOMAIN tasks :
          (tasks[t].pc = "rejected" /\ tasks[t].step = 0)
          => /\ loadingPkgs[tasks[t].pkg] = LOADING
             /\ \A path \in DOMAIN disk : path[1] # tasks[t].pkg

\* a dependency failed on the filesystem, the package awaiting it was
\* rejected with that error, and a second failure followed in the tree
C8_Witness ==
    \E c \in DOMAIN calls : \E t \in TreeOf(c) :
        /\ calls[c].status = "rejected"
        /\ calls[c].err = "fs"
        /\ tasks[t].pc = "rejected"
        /\ tasks[t].children # <<>>
        /\ tasks[t].step = 0
        /\ Cardinality(FailedOrders(c)) = 2

\* C9: when buildPackageTree with file writing, begun on a fresh instance,
\* has resolved, every key of the cache is loaded and each of its paths
\* was written exactly once; the call holds one task per key and none of
\* them awaits another.
C9_TreeBuildsEveryPackageOnce ==
    \A c \in DOMAIN calls :
        ( /\ calls[c].kind = "buildPackageTree"
          /\ calls[c].writeFiles
          /\ calls[c].fresh
          /\ calls[c].status = "resolved" )
        => /\ \A p \in DOMAIN packageCache :
                 /\ loadingPkgs[p] = LOADED
                 /\ AllWrittenOnce(p)
                 /\ \E t \in TreeOf(c) : tasks[t].pkg = p
           /\ Len(calls[c].roots) = Cardinality(DOMAIN packageCache)
           /\ \A t \in TreeOf(c) : tasks[t].children = <<>>

\* a tree build with file writing, begun on a fresh instance, resolved
\* over a cache that has dependencies
C9_Witness ==
    \E c \in DOMAIN calls :
        /\ calls[c].kind = "buildPackageTree"
        /\ calls[c].writeFiles
        /\ calls[c].fresh
        /\ calls[c].status = "resolved"
        /\ \E p \in DOMAIN packageCache : LocalDeps(packageCache, p) # <<>>

\* C10, the state part: a batch that is still awaited has no failed
\* member, and a batch that succeeded has only members that succeeded.
C10_BatchState ==
    /\ \A t \in DOMAIN tasks :
          /\ tasks[t].pc = "awaitDeps"
             => AllState(tasks, tasks[t].children) = "pending"
          /\ tasks[t].pc \in {"init", "msgs", "srvs", "resolved"}
             => AllState(tasks, tasks[t].children) = "resolved"
          /\ (tasks[t].pc \in {"srvs", "resolved"} /\ tasks[t].writeFiles)
             => \A f \in MessageFiles(packageCache, tasks[t].pkg) :
                    TimesWritten(disk, f) >= 1
          /\ (tasks[t].pc = "resolved" /\ tasks[t].writeFiles)
             => \A f \in ServiceFiles(packageCache, tasks[t].pkg) :
                    TimesWritten(disk, f) >= 1
    /\ \A c \in DOMAIN calls :
          /\ calls[c].status = "loading"
             => AllState(tasks, calls[c].roots) = "pending"
          /\ calls[c].status = "resolved"
             => AllState(tasks, calls[c].roots) = "resolved"

\* C10, the step part: a failure rejects the task whose operation failed
\* and cancels nothing (every other task is as it was, the failed task
\* keeps its other writes in flight); nothing written is rolled back.
C10_BatchStep ==
    /\ failures' # failures
       => \E t \in DOMAIN tasks :
              /\ tasks[t].pc \in {"init", "msgs", "srvs"}
                 => tasks'[t].pc = "rejected"
              /\ Cardinality(tasks[t].pending \ tasks'[t].pending) <= 1
              /\ \A u \in DOMAIN tasks \ {t} :
                     Writing(tasks[u]) => tasks'[u] = tasks[u]
    /\ \A path \in DOMAIN disk :
          path \in DOMAIN disk' /\ disk'[path] >= disk[path]
    /\ \A p \in Names : loadingPkgs[p] = LOADED => loadingPkgs'[p] = LOADED

\* C10: a batch fails at once with its first failure and succeeds only if
\* every member succeeds; the other members are not cancelled, and output
\* already written is never rolled back.
C10_FailFastWithoutCancel == []C10_BatchState /\ [][C10_BatchStep]_vars

\* after the top-level call rejected, another member of its batch went on
\* writing and reached the loaded state
C10_Witness ==
    \E c \in DOMAIN calls : \E t \in TreeOf(c) :
        /\ calls[c].status = "rejected"
        /\ tasks[t].late
        /\ tasks[t].pc = "resolved"
        /\ loadingPkgs[tasks[t].pkg] = LOADED

\* the packages of the closure of p that are not keys of the cache
Absent(p) == Closure(p) \ DOMAIN packageCache

NothingWritten(p) == \A path \in DOMAIN disk : path[1] # p

\* C11: a package built with dependency loading whose closure names a
\* package that is not a key of the cache fails before it writes: its
\* top-level call is rejected, the package stays loading with no output,
\* and the absent package has no output and is never loaded.
C11_MissingDependencyIsFatal ==
    \A t \in DOMAIN tasks :
        (tasks[t].loadDeps /\ Absent(tasks[t].pkg) # {})
        => /\ tasks[t].pc = "rejected"
           /\ tasks[t].err \in {"missing", "cycle", "overflow"}
           /\ tasks[t].step = 0
           /\ calls[tasks[t].call].status = "rejected"
           /\ loadingPkgs[tasks[t].pkg] = LOADING
           /\ NothingWritten(tasks[t].pkg)
           /\ \A x \in Absent(tasks[t].pkg) :
                 loadingPkgs[x] # LOADED /\ NothingWritten(x)

\* a build failed on a package that is absent from the cache and is named
\* only by a dependency of the package built
C11_Witness ==
    \E t \in DOMAIN tasks :
        /\ tasks[t].loadDeps
        /\ tasks[t].err = "missing"
        /\ tasks[t].pkg \in DOMAIN packageCache
        /\ Range(LocalDeps(packageCache, tasks[t].pkg)) \subseteq DOMAIN packageCache
        /\ Absent(tasks[t].pkg) # {}
        /\ calls[tasks[t].call].status = "rejected"

\* a write of the task of p failed
WriteFailed(p) ==
    \E t \in TasksOf(p) : tasks[t].pc = "rejected" /\ tasks[t].err = "fs"
                          /\ tasks[t].step > 0

\* C19, the state part: a loaded package has a task that resolved after
\* every initPackageWrite operation and every binding file of the package
\* was written; a package with a failed write is loading.
C19_LoadedState ==
    \A p \in Names :
        /\ loadingPkgs[p] = LOADED
           => /\ p \in DOMAIN packageCache
              /\ \E t \in TasksOf(p) : tasks[t].pc = "resolved" /\ tasks[t].writeFiles
              /\ \A path \in PackagePaths(packageCache, p) :
                     TimesWritten(disk, path) >= 1
        /\ WriteFailed(p) => loadingPkgs[p] = LOADING

\* C19, the step part: the step in which a write fails leaves the package
\* loading, and so does every step after it.
C19_LoadedStep ==
    \A t \in DOMAIN tasks :
        /\ (failures' # failures /\ tasks'[t].pc = "rejected"
              /\ tasks[t].pc \in {"init", "msgs", "srvs"})
           => loadingPkgs'[tasks[t].pkg] = LOADING
        /\ tasks[t].pc = "rejected"
           => tasks'[t].pc = "rejected" /\ loadingPkgs'[tasks[t].pkg] = LOADING

\* C19: a package is set to loaded only after its directories, index files
\* and all its binding files were written; when one of those writes fails
\* the package stays loading and never becomes loaded.
C19_LoadedOnlyAfterAllWrites == []C19_LoadedState /\ [][C19_LoadedStep]_vars

\* every write has completed: one package, whose binding write failed, is
\* loading and another is loaded
C19_Witness ==
    /\ \A t \in DOMAIN tasks :
          tasks[t].pc \in {"resolved", "rejected"} /\ tasks[t].pending = {}
    /\ \E p, q \in DOMAIN packageCache :
          /\ loadingPkgs[p] = LOADING
          /\ \E t \in TasksOf(p) : tasks[t].pc = "rejected" /\ tasks[t].err = "fs"
          /\ \E f \in MessageFiles(packageCache, p) : TimesWritten(disk, f) = 0
          /\ \E f \in MessageFiles(packageCache, p) : TimesWritten(disk, f) = 1
          /\ loadingPkgs[q] = LOADED

\* the task of p has ended without setting p to loaded: it was rejected, or
\* it ran with file writing disabled
Ended(p) ==
    \E t \in TasksOf(p) :
        \/ tasks[t].pc = "rejected"
        \/ tasks[t].pc = "resolved" /\ ~tasks[t].writeFiles

\* C20, the state part: a package whose task ended that way is loading, and
\* nothing of a package built with file writing disabled is on disk.
C20_EndedState ==
    \A t \in DOMAIN tasks :
        /\ Ended(tasks[t].pkg) => loadingPkgs[tasks[t].pkg] = LOADING
        /\ (tasks[t].pc = "resolved" /\ ~tasks[t].writeFiles)
           => \A path \in DOMAIN disk : path[1] # tasks[t].pkg

\* C20, the step part: such a package stays loading, no task is started
\* for it again, nothing is written for it except by a write its task had
\* in flight when it failed, and a buildPackage call for it resolves
\* without error, changing nothing.
C20_EndedStep ==
    \A p \in Names :
        Ended(p)
        => /\ loadingPkgs'[p] = LOADING
           /\ { t \in DOMAIN tasks' : tasks'[t].pkg = p } = TasksOf(p)
           /\ \A t \in TasksOf(p) : tasks'[t].pc = tasks[t].pc
           /\ \A path \in DOMAIN disk' :
                  (path[1] = p
                     /\ TimesWritten(disk', path) > TimesWritten(disk, path))
                  => \E t \in TasksOf(p) : path \in tasks[t].pending
           /\ \A c \in DOMAIN calls :
                  ( /\ calls[c].status = "initTree"
                    /\ calls'[c].status # "initTree"
                    /\ calls[c].kind = "buildPackage"
                    /\ calls[c].pkg = p )
                  => /\ calls'[c].status = "resolved"
                     /\ calls'[c].err = "none"
                     /\ UNCHANGED <<loadingPkgs, tasks, disk, content>>

\* C20: a package whose task ended while it was loading is never cleaned
\* up; every later build request for it succeeds without writing anything.
C20_StaleLoadingIsKept == []C20_EndedState /\ [][C20_EndedStep]_vars

\* a buildPackage call resolved and its package is loaded, although a
\* package it depends on is loading, its task ended, with a file never
\* written
C20_Witness ==
    \E c \in DOMAIN calls :
        /\ calls[c].kind = "buildPackage"
        /\ calls[c].status = "resolved"
        /\ loadingPkgs[calls[c].pkg] = LOADED
        /\ \E d \in (Closure(calls[c].pkg) \ {calls[c].pkg}) \cap DOMAIN packageCache :
              /\ Ended(d)
              /\ loadingPkgs[d] = LOADING
              /\ \E path \in PackagePaths(packageCache, d) :
                     TimesWritten(disk, path) = 0

\* C26, the step: no entry of the load map is removed, a loaded package
\* stays loaded, a package becomes loading only together with the task that
\* claims it, and becomes loaded only from loading, in the step in which
\* that one task of the package resolves.
C26_ForwardStep ==
    \A p \in Names :
        /\ loadingPkgs[p] # "none" => loadingPkgs'[p] # "none"
        /\ loadingPkgs[p] = LOADED => loadingPkgs'[p] = LOADED
        /\ (loadingPkgs[p] = "none" /\ loadingPkgs'[p] # "none")
           => /\ loadingPkgs'[p] = LOADING
              /\ TasksOf(p) = {}
              /\ \E t \in DOMAIN tasks' : t \notin DOMAIN tasks /\ tasks'[t].pkg = p
        /\ (loadingPkgs[p] # LOADED /\ loadingPkgs'[p] = LOADED)
           => /\ loadingPkgs[p] = LOADING
              /\ \E t \in DOMAIN tasks :
                    /\ TasksOf(p) = {t}
                    /\ tasks[t].pc \in {"init", "msgs", "srvs"}
                    /\ tasks'[t].pc = "resolved"

\* C26: the load state of a package only moves forward, from unclaimed to
\* loading to loaded, and only the task that claimed the package sets it to
\* loaded.
C26_LoadStateOnlyMovesForward == [][C26_ForwardStep]_vars

\* one package is loaded, one is loading after its task failed, one is
\* unclaimed, and a second call for the loaded package has returned at the
\* entry check
C26_Witness ==
    \E p, q, r \in Names :
        /\ loadingPkgs[p] = LOADED
        /\ loadingPkgs[q] = LOADING
        /\ \E t \in TasksOf(q) : tasks[t].pc = "rejected"
        /\ loadingPkgs[r] = "none"
        /\ \E c \in DOMAIN calls :
              /\ calls[c].kind = "buildPackage"
              /\ calls[c].pkg = p
              /\ calls[c].status = "resolved"
              /\ calls[c].roots = <<0>>

\* call c is a buildPackage call that began loading on a fresh instance,
\* and no other call has begun loading
AloneOnFreshInstance(c) ==
    /\ calls[c].kind = "buildPackage"
    /\ calls[c].status # "initTree"
    /\ calls[c].fresh
    /\ \A d \in DOMAIN calls \ {c} : calls[d].status = "initTree"

\* C27: a buildPackage(P) call on a fresh instance claims and writes only P
\* and the packages P depends on, directly or through other packages: every
\* other package stays unclaimed, has no task and has nothing written or in
\* flight, whether the call is loading, resolved or rejected.
C27_OnlyClosureIsTouched ==
    \A c \in DOMAIN calls :
        AloneOnFreshInstance(c)
        => \A q \in Names \ ({calls[c].pkg} \cup Closure(calls[c].pkg)) :
               /\ loadingPkgs[q] = "none"
               /\ TasksOf(q) = {}
               /\ \A path \in DOMAIN disk : path[1] # q
               /\ \A t \in DOMAIN tasks : \A path \in tasks[t].pending : path[1] # q

\* such a call was rejected by a failed write after files of its package
\* and of a dependency were written, and a package of the cache outside the
\* closure is untouched
C27_Witness ==
    \E c \in DOMAIN calls :
        /\ AloneOnFreshInstance(c)
        /\ calls[c].status = "rejected"
        /\ calls[c].err = "fs"
        /\ \E d \in Closure(calls[c].pkg) \ {calls[c].pkg} :
              /\ loadingPkgs[d] # "none"
              /\ \E path \in DOMAIN disk : path[1] = d
        /\ \E path \in DOMAIN disk : path[1] = calls[c].pkg
        /\ DOMAIN packageCache \ ({calls[c].pkg} \cup Closure(calls[c].pkg)) # {}

\* C28: buildPackageTree runs no dependency resolution: its tasks await no
\* dependency batch and neither they nor the call fail with a cycle or a
\* missing-reference error, also when the cache has a cycle or a localDeps
\* entry naming an absent package; a tree build on a fresh instance starts a
\* task for every package of the cache, rejects only when a filesystem
\* operation failed, and once resolved with file writing enabled has
\* written every file of every package.
C28_TreeBuildSkipsResolution ==
    \A c \in DOMAIN calls :
        calls[c].kind = "buildPackageTree"
        => /\ calls[c].err \in {"none", "fs"}
           /\ calls[c].status = "rejected" => failures > 0
           /\ \A t \in TreeOf(c) :
                 /\ tasks[t].err \in {"none", "fs"}
                 /\ tasks[t].children = <<>>
                 /\ ~tasks[t].loadDeps
           /\ (calls[c].status # "initTree" /\ calls[c].fresh)
              => \A p \in DOMAIN packageCache :
                     \E t \in TreeOf(c) : tasks[t].pkg = p
           /\ (calls[c].status = "resolved" /\ calls[c].fresh /\ calls[c].writeFiles)
              => \A p \in DOMAIN packageCache :
                     /\ loadingPkgs[p] = LOADED
                     /\ \A path \in PackagePaths(packageCache, p) :
                            TimesWritten(disk, path) >= 1

\* a tree build on a fresh instance resolved with every file written
TreeBuilt(c) ==
    /\ calls[c].kind = "buildPackageTree"
    /\ calls[c].status = "resolved"
    /\ calls[c].fresh
    /\ calls[c].writeFiles
    /\ \A p \in DOMAIN packageCache :
          \A path \in PackagePaths(packageCache, p) : TimesWritten(disk, path) = 1

\* such a build of a cache with a dependency cycle
C28_Witness ==
    \E c \in DOMAIN calls : TreeBuilt(c) /\ ~Acyclic(packageCache)

\* such a build of a cache with a localDeps entry naming an absent package
C28_MissingReferenceBuilt ==
    \E c \in DOMAIN calls : TreeBuilt(c) /\ ~Closed(packageCache)

(***************************************************************************)
(* The orchestrator when every filesystem operation succeeds, over caches  *)
(* without cycles whose references all exist.  Every operation issued      *)
(* completes in the end: weak fairness of the callbacks.                   *)
(***************************************************************************)
InitLive == Init /\ WellFormed(packageCache)

Callback ==
    \/ \E c \in DOMAIN calls : buildPackageLoad(c)
    \/ \E c \in DOMAIN calls : buildPackageTreeLoad(c)
    \/ \E t \in DOMAIN tasks : InitOpSucceeds(t)
    \/ \E t \in DOMAIN tasks : \E f \in tasks[t].pending : BindingWriteSucceeds(t, f)

NextLive ==
    \/ \E p \in DOMAIN packageCache : buildPackage(p)
    \/ \E w \in BOOLEAN : buildPackageTree(w)
    \/ \E c \in DOMAIN calls : buildPackageLoad(c)
    \/ \E c \in DOMAIN calls : buildPackageTreeLoad(c)
    \/ \E t \in DOMAIN tasks : InitOpSucceeds(t)
    \/ \E t \in DOMAIN tasks : \E f \in tasks[t].pending : BindingWriteSucceeds(t, f)

\* ENABLED <<Callback>>_vars: an initTree, a directory or index operation or
\* a binding write is outstanding (every callback changes the state)
CallbackEnabled ==
    \/ \E c \in DOMAIN calls : calls[c].status = "initTree"
    \/ \E t \in DOMAIN tasks : tasks[t].pc = "init"
    \/ \E t \in DOMAIN tasks : tasks[t].pending # {}

\* WF_vars(Callback) with its enabling condition written out: the event
\* loop runs an outstanding callback in the end
CallbackFairness == []<>(~CallbackEnabled) \/ []<><<Callback>>_vars

SpecLive == InitLive /\ [][NextLive]_vars /\ CallbackFairness

\* a task awaits only tasks its own call started: never a package that a
\* task of another call holds in the loading state
AwaitsOwnTasksOnly ==
    \A t \in DOMAIN tasks : \A i \in DOMAIN tasks[t].children :
        tasks[t].children[i] # 0
        => tasks[tasks[t].children[i]].call = tasks[t].call

\* C25: when every filesystem operation completes without error, every
\* buildPackage and buildPackageTree call over a cache without cycles or
\* missing references resolves in the end, whatever the interleaving; no
\* task waits for a package held by a task of another call.
C25_EveryCallResolves ==
    /\ []AwaitsOwnTasksOnly
    /\ \A c \in 1 .. MaxCalls :
          (c \in DOMAIN calls)
              ~> (c \in DOMAIN calls /\ calls[c].status = "resolved")

\* a call resolved although a dependency of its package was, at the entry
\* check, held by a task of the other call, which is still writing
C25_Witness ==
    \E c \in DOMAIN calls : \E t \in TreeOf(c) : \E u \in DOMAIN tasks :
        /\ calls[c].status = "resolved"
        /\ 0 \in Range(tasks[t].children)
        /\ tasks[u].call # c
        /\ tasks[u].pkg \in Closure(tasks[t].pkg)
        /\ tasks[u].pc \in {"init", "msgs", "srvs"}

(***************************************************************************)
(* Two MessageManager instances in one process (generateMessages makes a   *)
(* new one on every call).  The variables loadingPkgs, tasks and calls are *)
(* the instance in hand, others is the second one; both write below the    *)
(* same output directory and read the same package index.                  *)
(***************************************************************************)
InHand == [loadingPkgs |-> loadingPkgs, tasks |-> tasks, calls |-> calls]

\* faulty variant: the load map is one map for the whole process
SwitchInstance_SharedLoadState ==
    /\ others' = InHand
    /\ tasks' = others.tasks
    /\ calls' = others.calls
    /\ UNCHANGED <<packageCache, call, ret, loadingPkgs, disk, content, failures,
                   proc, utilVars>>

\* the program goes on with its other instance
SwitchInstance ==
    /\ others' = InHand
    /\ loadingPkgs' = others.loadingPkgs
    /\ tasks' = others.tasks
    /\ calls' = others.calls
    /\ UNCHANGED <<packageCache, call, ret, disk, content, failures, proc, utilVars>>

\* generateMessages: "const msgLoader = new MsgLoader(...)", then one build
\* call on that instance
InstanceBuildPackage(packageName) ==
    /\ calls = <<>>
    /\ buildPackage(packageName)

InstanceBuildPackageTree(writeFiles) ==
    /\ calls = <<>>
    /\ buildPackageTree(writeFiles)

InstanceCaches == CachesOver(Names \ {NumPkgs}, InstanceMaxEdges)

InitInstances ==
    /\ packageCache \in InstanceCaches
    /\ call = NoCall
    /\ ret = NoRet
    /\ IdleBuild
    /\ IdleSide

NextInstances ==
    \/ SwitchInstance
    \/ \E p \in Names : InstanceBuildPackage(p)
    \/ \E w \in BOOLEAN : InstanceBuildPackageTree(w)
    \/ \E c \in DOMAIN calls : buildPackageLoad(c)
    \/ \E c \in DOMAIN calls : buildPackageTreeLoad(c)
    \/ \E t \in DOMAIN tasks : InitOpSucceeds(t)
    \/ \E t \in DOMAIN tasks : InitOpFails(t)
    \/ \E t \in DOMAIN tasks : \E f \in tasks[t].pending : BindingWriteSucceeds(t, f)
    \/ \E t \in DOMAIN tasks : \E f \in tasks[t].pending : BindingWriteFails(t, f)

SpecInstances == InitInstances /\ [][NextInstances]_vars

\* every entry of the load map of an instance was set by a loadPackage
\* invocation of that instance, and a loaded package was written in full by it
OwnsItsLoadState(inst) ==
    \A p \in Names :
        inst.loadingPkgs[p] # "none"
        => \E t \in DOMAIN inst.tasks :
               /\ inst.tasks[t].pkg = p
               /\ inst.loadingPkgs[p] = LOADED
                  => /\ inst.tasks[t].pc = "resolved"
                     /\ inst.tasks[t].writeFiles
                     /\ \A path \in PackagePaths(packageCache, p) :
                            TimesWritten(disk, path) >= 1

\* a step of one instance leaves the load map of the other as it was
OtherLoadStateKept ==
    \/ others'.loadingPkgs = others.loadingPkgs
    \/ /\ others'.loadingPkgs = loadingPkgs
       /\ loadingPkgs' = others.loadingPkgs

\* C12: the load map belongs to one instance: the build steps of one
\* instance never change the map of the other, and whatever one instance
\* built or left loading, the other claims and builds for itself.
C12_LoadStatePerInstance ==
    /\ [](OwnsItsLoadState(InHand) /\ OwnsItsLoadState(others))
    /\ [][OtherLoadStateKept]_vars

\* one instance left a package loading (its build failed), the other one
\* built the same package in full
C12_Witness ==
    \E p \in DOMAIN packageCache :
        /\ others.loadingPkgs[p] = LOADING
        /\ \E t \in DOMAIN others.tasks :
              others.tasks[t].pkg = p /\ others.tasks[t].pc = "rejected"
        /\ loadingPkgs[p] = LOADED
        /\ \E t \in DOMAIN tasks : tasks[t].pkg = p /\ tasks[t].pc = "resolved"

(***************************************************************************)
(* The command-line tool: main, generateMessages and generateTypes.        *)
(* proc is                                                                 *)
(*   pc             "start", "build" (generateMessages awaits the build    *)
(*                  call), "types" (it awaits operation step of            *)
(*                  generateTypes), "returned", "threw"                    *)
(*   pkg            the --pkg argument, 0 when it is absent                *)
(*   generateTypes  options.generateTypes as main passes it                *)
(*   exited, status whether the process has ended, and its exit status     *)
(***************************************************************************)
\* the awaited operations of generateTypes in order: fse.emptyDir,
\* generateIndex (fse.copy, opendir, writeFile of index.js),
\* generatePackageJson, generateTypesFile (createDirectory, writeFile)
TypesOps ==
    << <<0, "msgs", "emptyDir">>, <<0, "msgs", "copy">>, <<0, "msgs", "opendir">>,
       <<0, "msgs", "index.js">>, <<0, "msgs", "package.json">>,
       <<0, "msgs", "">>, <<0, "msgs", "index.d.ts">> >>

\* the operations of generateTypes that write a file
TypesFiles ==
    { <<0, "msgs", "index.js">>, <<0, "msgs", "package.json">>,
      <<0, "msgs", "index.d.ts">> }

\* "for (const pkg in packageMap) w.write(...)" from index i
RECURSIVE writePackages(_, _, _, _)
writePackages(w, word, packages, i) ==
    IF i > Len(packages) THEN w
    ELSE writePackages(write(w, <<word, packages[i]>>), word, packages, i + 1)

\* generateIndex: the text of the index over all packages
generateIndex(cache) ==
    LET w0 == writePackages(NewWriter, "const", Keys(cache), 1)
        w1 == indent(write(write(w0, <<>>), <<"module.exports = {">>))
        w2 == writePackages(w1, "export", Keys(cache), 1)
    IN  write(dedent(w2), <<"};">>).lines

\* generatePackageJson
generatePackageJson ==
    << <<0, <<"name", "rosnodejs_msgs">>>>, <<0, <<"version", "0.1.0">>>>,
       <<0, <<"main", "index.js">>>>, <<0, <<"types", "index.d.ts">>>> >>

\* typeMap of getTypeStringForBuiltin
typeMap ==
    [ name \in {"char", "byte", "bool", "int8", "uint8", "int16", "uint16",
                "int32", "uint32", "int64", "uint64", "float32", "float64",
                "string", "time", "duration"} |->
        CASE name = "bool" -> "boolean"
          [] name = "string" -> "string"
          [] name \in {"time", "duration"} -> "BuiltinTime"
          [] OTHER -> "number" ]

\* the properties every object literal inherits from Object.prototype
ObjectPrototype ==
    {"__defineGetter__", "__defineSetter__", "__lookupGetter__",
     "__lookupSetter__", "__proto__", "constructor", "hasOwnProperty",
     "isPrototypeOf", "propertyIsEnumerable", "toLocaleString", "toString",
     "valueOf"}

\* typeMap[fieldType]: an own property, else an inherited one, else
\* undefined
GetProperty(obj, key) ==
    IF key \in DOMAIN obj THEN obj[key]
    ELSE IF key \in ObjectPrototype THEN "inherited"
    ELSE "undefined"

getTypeStringForBuiltin(fieldType) ==
    LET val == GetProperty(typeMap, fieldType)
    IN  IF val = "undefined"
        THEN [err |-> "Unable to get type string for builtin", val |-> ""]
        ELSE [err |-> "none", val |-> val]

\* a field of a message specification
BuiltinField(name, baseType, isArray) ==
    [name |-> name, isBuiltin |-> TRUE, baseType |-> baseType,
     isArray |-> isArray, pkg |-> "", msg |-> ""]

MessageField(name, pkg, msg, isArray) ==
    [name |-> name, isBuiltin |-> FALSE, baseType |-> "",
     isArray |-> isArray, pkg |-> pkg, msg |-> msg]

\* the line writeMessageType writes for a field, or the error
\* getTypeStringForBuiltin throws
fieldLine(field) ==
    LET maybeArr == IF field.isArray THEN "[]" ELSE ""
    IN  IF field.isBuiltin
        THEN LET t == getTypeStringForBuiltin(field.baseType)
             IN  [err |-> t.err, words |-> <<"field", field.name, t.val, maybeArr>>]
        ELSE [err |-> "none",
              words |-> <<"field", field.name, field.pkg, "msg", field.msg, maybeArr>>]

\* "for (const field of spec.fields)" from index i: the writer, or the
\* error that ended the loop
RECURSIVE writeFields(_, _, _)
writeFields(w, fields, i) ==
    IF i > Len(fields) THEN [w |-> w, err |-> "none"]
    ELSE CHOOSE r \in { IF l.err # "none" THEN [w |-> w, err |-> l.err]
                        ELSE writeFields(write(w, l.words), fields, i + 1) :
                        l \in {fieldLine(fields[i])} } : TRUE

\* writeMessageType(w, packageName, spec), messageName the words of
\* spec.messageName
writeMessageType(w, messageName, fields) ==
    CHOOSE t \in { IF r.err # "none" THEN r
                   ELSE [w |-> write(write(dedent(r.w), <<"}">>), <<>>),
                         err |-> "none"] :
                   r \in {writeFields(indent(write(w, <<"class">> \o messageName)),
                                      fields, 1)} } : TRUE

\* "for (const msg in pkgInfo.messages)" from index i
RECURSIVE writeMessageTypes(_, _, _, _)
writeMessageTypes(w, messages, fields, i) ==
    IF i > Len(messages) THEN [w |-> w, err |-> "none"]
    ELSE CHOOSE t \in { IF r.err # "none" THEN r
                        ELSE writeMessageTypes(r.w, messages, fields, i + 1) :
                        r \in {writeMessageType(w, <<messages[i]>>, fields)} } : TRUE

\* the interface generateTypesFile writes for a service after its two classes
writeServiceInterface(w, srv) ==
    write(write(dedent(write(write(indent(write(w, <<"interface", srv>>)),
                                   <<"Request", srv, "Request">>),
                             <<"Response", srv, "Response">>)),
                <<"}">>),
          <<>>)

\* the request and the response class of a service
writeServiceClasses(w, srv, fields) ==
    CHOOSE t \in { IF req.err # "none" THEN req
                   ELSE writeMessageType(req.w, <<srv, "Response">>, fields) :
                   req \in {writeMessageType(w, <<srv, "Request">>, fields)} } : TRUE

\* "for (const srv in pkgInfo.services)" from index i: the request and the
\* response class, then the interface of the service
RECURSIVE writeServiceTypes(_, _, _, _)
writeServiceTypes(w, services, fields, i) ==
    IF i > Len(services) THEN [w |-> w, err |-> "none"]
    ELSE CHOOSE t \in { IF res.err # "none" THEN res
                        ELSE writeServiceTypes(
                                 writeServiceInterface(res.w, services[i]),
                                 services, fields, i + 1) :
                        res \in {writeServiceClasses(w, services[i], fields)} } : TRUE

\* "if (pkgInfo.messages.length > 0)": the msg namespace of a package
writeMsgNamespace(w, pkgInfo) ==
    IF Len(pkgInfo.messages) = 0 THEN [w |-> w, err |-> "none"]
    ELSE CHOOSE t \in { IF m.err # "none" THEN m
                        ELSE [w |-> write(dedent(m.w), <<"}">>), err |-> "none"] :
                        m \in {writeMessageTypes(
                                   indent(write(w, <<"namespace msg {">>)),
                                   pkgInfo.messages, pkgInfo.fields, 1)} } : TRUE

\* "if (pkgInfo.services.length > 0)": the srv namespace of a package
writeSrvNamespace(w, pkgInfo) ==
    IF Len(pkgInfo.services) = 0 THEN [w |-> w, err |-> "none"]
    ELSE CHOOSE t \in { IF v.err # "none" THEN v
                        ELSE [w |-> write(dedent(v.w), <<"}">>), err |-> "none"] :
                        v \in {writeServiceTypes(
                                   indent(write(w, <<"namespace srv {">>)),
                                   pkgInfo.services, pkgInfo.fields, 1)} } : TRUE

\* the namespace of one package with its msg and srv parts
writeNamespace(w, pkg, pkgInfo) ==
    CHOOSE t \in { IF r1.err # "none" THEN r1
                   ELSE writeSrvNamespace(r1.w, pkgInfo) :
                   r1 \in {writeMsgNamespace(
                               indent(write(w, <<"namespace", pkg>>)),
                               pkgInfo)} } : TRUE

\* generateTypesFile: per package the namespace with its msg and srv parts,
\* then per package the interface entry
RECURSIVE writeNamespaces(_, _, _, _)
writeNamespaces(w, cache, packages, i) ==
    IF i > Len(packages) THEN [w |-> w, err |-> "none"]
    ELSE CHOOSE t \in { IF r2.err # "none" THEN r2
                        ELSE writeNamespaces(write(dedent(r2.w), <<"}">>),
                                             cache, packages, i + 1) :
                        r2 \in {writeNamespace(w, packages[i],
                                               cache[packages[i]])} } : TRUE

RECURSIVE writeInterfaces(_, _, _, _)
writeInterfaces(w, cache, packages, i) ==
    IF i > Len(packages) THEN w
    ELSE LET pkg == packages[i]
             w0 == indent(write(w, <<"interface", pkg>>))
             w1 == IF Len(cache[pkg].messages) > 0
                   THEN write(w0, <<"msg", cache[pkg].messages>>) ELSE w0
             \* "if (Object.keys(pkgInfo).length > 0)": pkgInfo has four keys
             w2 == write(w1, <<"srv", cache[pkg].services>>)
         IN  writeInterfaces(write(dedent(w2), <<"}">>), cache, packages, i + 1)

\* generateTypesFile after createDirectory: the text of index.d.ts, or the
\* error thrown while it is composed
generateTypesFile(cache) ==
    CHOOSE g \in {
        IF n.err # "none" THEN [err |-> n.err, lines |-> <<>>]
        ELSE [err |-> "none",
              lines |-> write(dedent(writeInterfaces(
                                  indent(write(write(dedent(n.w), <<"}">>),
                                               <<"export default interface msgs {">>)),
                                  cache, Keys(cache), 1)),
                              <<"}">>).lines] :
        n \in {writeNamespaces(
                   indent(write(write(NewWriter, <<"type BuiltinTime">>),
                                <<"declare namespace rosnodejs_msgs {">>)),
                   cache, Keys(cache), 1)} } : TRUE

TypesFileText(cache, path) ==
    IF path[3] = "index.js" THEN generateIndex(cache)
    ELSE IF path[3] = "package.json" THEN generatePackageJson
    ELSE generateTypesFile(cache).lines

\* main: the arguments are parsed and generateMessages makes its
\* MessageManager and issues the build call; only the whole-tree branch of
\* main passes the --types flag on
main(pkgArg, typesArg) ==
    /\ proc.pc = "start"
    /\ proc' = [proc EXCEPT !.pc = "build", !.pkg = pkgArg,
                            !.types = typesArg,
                            !.generateTypes = (pkgArg = 0 /\ typesArg)]
    /\ calls' = <<IF pkgArg = 0 THEN NewCall("buildPackageTree", 0, TRUE)
                  ELSE NewCall("buildPackage", pkgArg, TRUE)>>
    /\ UNCHANGED <<packageCache, call, ret, loadingPkgs, tasks, disk, content,
                   failures, others, utilVars>>

\* generateMessages after the build call resolved
generateMessagesBuilt ==
    /\ proc.pc = "build"
    /\ calls[1].status = "resolved"
    /\ proc' = IF proc.generateTypes THEN [proc EXCEPT !.pc = "types", !.step = 1]
               ELSE [proc EXCEPT !.pc = "returned"]
    /\ UNCHANGED <<packageCache, call, ret, buildVars, others, utilVars>>

\* generateMessages after the build call rejected
generateMessagesThrows ==
    /\ proc.pc = "build"
    /\ calls[1].status = "rejected"
    /\ proc' = [proc EXCEPT !.pc = "threw"]
    /\ UNCHANGED <<packageCache, call, ret, buildVars, others, utilVars>>

\* the operation in flight of generateTypes succeeds.  After the mkdir of
\* createDirectory generateTypesFile composes the text before it issues the
\* write: an error thrown there rejects generateTypes with no write issued.
TypesOpSucceeds ==
    /\ proc.pc = "types"
    /\ \E path \in {TypesOps[proc.step]} :
          /\ IF path \in TypesFiles
             THEN /\ disk' = Written(disk, path)
                  /\ content' = Put(content, path, TypesFileText(packageCache, path))
             ELSE UNCHANGED <<disk, content>>
    /\ proc' = IF proc.step = Len(TypesOps) THEN [proc EXCEPT !.pc = "returned"]
               ELSE IF /\ TypesOps[proc.step + 1] = <<0, "msgs", "index.d.ts">>
                       /\ generateTypesFile(packageCache).err # "none"
               THEN [proc EXCEPT !.pc = "threw"]
               ELSE [proc EXCEPT !.step = @ + 1]
    /\ UNCHANGED <<packageCache, call, ret, loadingPkgs, tasks, calls, failures,
                   others, utilVars>>

\* the operation in flight of generateTypes fails
TypesOpFails ==
    /\ proc.pc = "types"
    /\ failures < MaxFailures
    /\ failures' = failures + 1
    /\ proc' = [proc EXCEPT !.pc = "threw"]
    /\ UNCHANGED <<packageCache, call, ret, loadingPkgs, tasks, calls, disk,
                   content, others, utilVars>>

\* main returned: the process ends with status 0
mainReturns ==
    /\ proc.pc = "returned"
    /\ ~proc.exited
    /\ proc' = [proc EXCEPT !.exited = TRUE, !.status = 0]
    /\ UNCHANGED <<packageCache, call, ret, buildVars, others, utilVars>>

\* whole-tree branch: "catch(err) { ...; process.exit(1) }"
mainCatches ==
    /\ proc.pc = "threw"
    /\ proc.pkg = 0
    /\ ~proc.exited
    /\ proc' = [proc EXCEPT !.exited = TRUE, !.status = 1]
    /\ UNCHANGED <<packageCache, call, ret, buildVars, others, utilVars>>

\* a filesystem operation of the build is in flight
InFlight ==
    \E t \in DOMAIN tasks :
        tasks[t].pc \in {"init", "msgs", "srvs"} \/ tasks[t].pending # {}

\* --pkg branch: nothing catches, the promise of main() rejects unhandled.
\* What the process then does is the runtime's choice: it ends at once with
\* status 1 (unhandled rejections throw), or it warns, runs the callbacks
\* left and ends with status 0 (unhandled rejections warn).
mainUnhandledRejection(status) ==
    /\ proc.pc = "threw"
    /\ proc.pkg # 0
    /\ ~proc.exited
    /\ status = 0 => ~InFlight
    /\ proc' = [proc EXCEPT !.exited = TRUE, !.status = status]
    /\ UNCHANGED <<packageCache, call, ret, buildVars, others, utilVars>>

\* a filesystem callback runs only when the process lives and no
\* continuation of generateMessages or main is runnable (those are
\* microtasks, they run first)
CallbackTurn ==
    /\ ~proc.exited
    /\ ~(proc.pc = "build" /\ calls # <<>>
             /\ calls[1].status \in {"resolved", "rejected"})
    /\ ~(proc.pc = "threw" /\ proc.pkg = 0)

NextMain ==
    \/ \E p \in Names \cup {0} : \E t \in BOOLEAN : main(p, t)
    \/ \E c \in DOMAIN calls : CallbackTurn /\ buildPackageLoad(c)
    \/ \E c \in DOMAIN calls : CallbackTurn /\ buildPackageTreeLoad(c)
    \/ \E t \in DOMAIN tasks : CallbackTurn /\ InitOpSucceeds(t)
    \/ \E t \in DOMAIN tasks : CallbackTurn /\ InitOpFails(t)
    \/ \E t \in DOMAIN tasks : \E f \in tasks[t].pending :
           CallbackTurn /\ BindingWriteSucceeds(t, f)
    \/ \E t \in DOMAIN tasks : \E f \in tasks[t].pending :
           CallbackTurn /\ BindingWriteFails(t, f)
    \/ generateMessagesBuilt
    \/ generateMessagesThrows
    \/ TypesOpSucceeds
    \/ TypesOpFails
    \/ mainReturns
    \/ mainCatches
    \/ \E status \in {0, 1} : mainUnhandledRejection(status)

\* spec.fields as MsgSpec.create may leave it: no field, fields of builtin
\* types of the table, a field of a message type, a builtin field whose
\* type is not in the table, one whose type names an inherited property
FieldLists ==
    { <<>>,
      <<BuiltinField("data", "string", FALSE)>>,
      <<BuiltinField("data", "int32", TRUE), MessageField("pose", "p1", "M1", FALSE)>>,
      <<BuiltinField("data", "string", FALSE), BuiltinField("wide", "wstring", FALSE)>>,
      <<BuiltinField("data", "constructor", FALSE)>> }

WithFields(cache, fields) ==
    [p \in DOMAIN cache |-> [cache[p] EXCEPT !.fields = fields]]

MainCaches ==
    { WithFields(cache, fields) : cache \in BuildCaches, fields \in FieldLists }

InitMain ==
    /\ packageCache \in MainCaches
    /\ call = NoCall
    /\ ret = NoRet
    /\ IdleBuild
    /\ IdleSide

SpecMain == InitMain /\ [][NextMain]_vars

\* one line per name, in the order of names
Lines(level, word, names) == [i \in 1 .. Len(names) |-> <<level, <<word, names[i]>>>>]

Opening == << <<0, <<"module.exports = {">>>> >>

Closing == << <<0, <<"};">>>> >>

\* the text a path must hold, read off the cache alone
TextFromCache(path) ==
    IF path[3] = "" THEN "directory"
    ELSE IF path = <<0, "msgs", "index.js">>
    THEN Lines(0, "const", Keys(packageCache)) \o << <<0, <<>>>> >> \o Opening
             \o Lines(1, "export", Keys(packageCache)) \o Closing
    ELSE IF path[3] # "_index.js"
    THEN << <<0, <<"class", path[1], path[2], path[3]>>>> >>
    ELSE IF path[2] = "msg"
    THEN Opening \o Lines(1, "require", packageCache[path[1]].messages) \o Closing
    ELSE IF path[2] = "srv"
    THEN Opening \o Lines(1, "require", packageCache[path[1]].services) \o Closing
    ELSE Opening
         \o (IF packageCache[path[1]].messages # <<>>
                \/ packageCache[path[1]].actions # <<>>
             THEN << <<1, <<"msg", "./msg/_index.js">>>> >> ELSE <<>>)
         \o (IF packageCache[path[1]].services # <<>>
             THEN << <<1, <<"srv", "./srv/_index.js">>>> >> ELSE <<>>)
         \o Closing

\* C13: whatever the order in which the writes complete, every binding
\* file, per-kind index, package index and the index over all packages
\* holds the text determined by the cache, its entries in cache order.
C13_OutputDependsOnCacheOnly ==
    \A path \in DOMAIN content :
        path \notin {<<0, "msgs", "package.json">>, <<0, "msgs", "index.d.ts">>}
        => content[path] = TextFromCache(path)

\* the binding of the second message of a package is written while the
\* write of the first is in flight; the index lists the first one first
C13_Witness ==
    \E p \in DOMAIN packageCache :
        /\ Len(packageCache[p].messages) = 2
        /\ <<p, "msg", "_index.js">> \in DOMAIN content
        /\ <<p, "msg", packageCache[p].messages[2]>> \in DOMAIN content
        /\ \E t \in DOMAIN tasks :
              <<p, "msg", packageCache[p].messages[1]>> \in tasks[t].pending

\* C15: when the build has failed the process ends with a status other
\* than 0, with the --pkg argument and without it.
C15_FailedBuildExitsNonZero ==
    (proc.exited /\ proc.pc = "threw") => proc.status # 0

(***************************************************************************)
(* The cache loader and the scalar type table applied to bounded inputs.   *)
(*                                                                         *)
(* _loadMessagesInCache receives the index of the definition files found   *)
(* on disk: per package the message, service and action files in key       *)
(* order.  A definition name is a pair <<base, suffix>> standing for the   *)
(* string base + suffix, so that the file FibGoal.msg and the Goal         *)
(* sub-message of the action Fib carry the same name.  `deps` stands for   *)
(* the packages the definitions of a package refer to (the result of       *)
(* getMessageDependencies, which is not part of this repository's files).  *)
(***************************************************************************)
ActionNames == {"Fib"}

\* ActionSpec.getMessages(): the sub-messages an action stands for
SubMessageKinds == <<"Goal", "Result", "Feedback">>

getMessages(action) ==
    [ i \in DOMAIN SubMessageKinds |-> <<action, SubMessageKinds[i]>> ]

MessageFileNames == {<<"Fib", "Goal">>, <<"Fib", "Result">>, <<"Pose", "">>}

IndexEntries ==
    [ messages : InjSeqs(MessageFileNames, MaxIndexMessages),
      services : {<<>>, <<"S1">>},
      actions  : InjSeqs(ActionNames, Cardinality(ActionNames)),
      deps     : {<<>>} ]

Indexes == UNION { [1 .. n -> IndexEntries] : n \in 1 .. IndexPkgs }

\* obj[key] = value on an object held as the sequence of its properties in
\* key order: an existing key keeps its place
SetProperty(obj, key, value) ==
    IF \E i \in DOMAIN obj : obj[i].key = key
    THEN [ i \in DOMAIN obj |->
             IF obj[i].key = key THEN [key |-> key, file |-> value] ELSE obj[i] ]
    ELSE Append(obj, [key |-> key, file |-> value])

\* faulty variant: a sub-message replaces the message read from disk
addActionMessage_Overwrites(messages, packageMsgs, messageName) ==
    SetProperty(messages, messageName, "null")

\* the body of the forEach over spec.getMessages()
addActionMessage(messages, packageMsgs, messageName) ==
    IF messageName \notin Range(packageMsgs)
    THEN SetProperty(messages, messageName, "null")
    ELSE messages

RECURSIVE addActionMessages(_, _, _, _)
addActionMessages(messages, packageMsgs, subs, i) ==
    IF i > Len(subs) THEN messages
    ELSE addActionMessages(addActionMessage(messages, packageMsgs, subs[i]),
                           packageMsgs, subs, i + 1)

\* the loop over packageInfo.actions
RECURSIVE loadActions(_, _, _, _)
loadActions(messages, packageMsgs, actions, i) ==
    IF i > Len(actions) THEN messages
    ELSE loadActions(
             addActionMessages(messages, packageMsgs, getMessages(actions[i]), 1),
             packageMsgs, actions, i + 1)

\* the loop over packageInfo.messages
loadMessages(packageMsgs) ==
    [ i \in DOMAIN packageMsgs |-> [key |-> packageMsgs[i], file |-> "disk"] ]

\* one iteration of the loop over the packages: the cache entry, with
\* `file` the file of each message ("null" for a synthesized one)
loadPackageInfo(packageInfo) ==
    LET messages == loadActions(loadMessages(packageInfo.messages),
                                packageInfo.messages, packageInfo.actions, 1)
    IN  [ localDeps |-> packageInfo.deps,
          messages  |-> [ i \in DOMAIN messages |-> messages[i].key ],
          services  |-> packageInfo.services,
          actions   |-> packageInfo.actions,
          file      |-> [ k \in { messages[i].key : i \in DOMAIN messages } |->
                            messages[CHOOSE i \in DOMAIN messages :
                                         messages[i].key = k].file ] ]

loadMessagesInCache(index) ==
    [ packageName \in DOMAIN index |-> loadPackageInfo(index[packageName]) ]

FieldTypes == DOMAIN typeMap \cup ObjectPrototype \cup {"wstring", "float", ""}

InitGen ==
    /\ packageCache = <<>>
    /\ call = NoCall
    /\ ret = NoRet
    /\ IdleBuild
    /\ IdleSide

CallLoadMessagesInCache(index) ==
    /\ call = NoCall
    /\ call' = [fn |-> "_loadMessagesInCache", index |-> index]
    /\ packageCache' = loadMessagesInCache(index)
    /\ UNCHANGED <<ret, buildVars, sideVars>>

CallGetTypeStringForBuiltin(fieldType) ==
    /\ call = NoCall
    /\ call' = [fn |-> "getTypeStringForBuiltin", fieldType |-> fieldType]
    /\ ret' = getTypeStringForBuiltin(fieldType)
    /\ UNCHANGED <<packageCache, buildVars, sideVars>>

\* the functions keep no state between calls: one application per behaviour
NextGen ==
    \/ call = NoCall /\ \E index \in Indexes : CallLoadMessagesInCache(index)
    \/ call = NoCall /\ \E fieldType \in FieldTypes :
                            CallGetTypeStringForBuiltin(fieldType)

SpecGen == InitGen /\ [][NextGen]_vars

\* C14: a sub-message of an action is put in the cache, with no file, iff
\* the package has no message file of that name; a message file is always
\* kept with its file; a package with actions has messages to write.
C14_ActionMessagesWhenNotOnDisk ==
    call.fn = "_loadMessagesInCache" =>
        \A p \in DOMAIN call.index :
            LET info == call.index[p]
                entry == packageCache[p]
            IN  /\ \A m \in Range(info.messages) :
                      m \in Range(entry.messages) /\ entry.file[m] = "disk"
                /\ \A a \in Range(info.actions) :
                      \A s \in Range(getMessages(a)) :
                          /\ s \in Range(entry.messages)
                          /\ entry.file[s] = "null"
                               <=> s \notin Range(info.messages)
                /\ IsInjective(entry.messages)
                /\ info.actions # <<>> => entry.messages # <<>>

\* a package whose only definition is an action gets its three messages,
\* and a package with the file FibGoal.msg keeps it beside two synthesized
\* ones
C14_Witness ==
    /\ call.fn = "_loadMessagesInCache"
    /\ \E p \in DOMAIN call.index :
          /\ call.index[p].messages = <<>>
          /\ call.index[p].services = <<>>
          /\ Len(packageCache[p].messages) = 3
    /\ \E p \in DOMAIN call.index :
          /\ call.index[p].actions = <<"Fib">>
          /\ call.index[p].messages = << <<"Fib", "Goal">> >>
          /\ packageCache[p].file[<<"Fib", "Goal">>] = "disk"
          /\ packageCache[p].file[<<"Fib", "Result">>] = "null"

\* C16: the table has 16 entries, time and duration share one type, a name
\* of the table maps to its entry and every other name raises an error.
C16_TableIsTotalOnItsNamesOnly ==
    call.fn = "getTypeStringForBuiltin" =>
        /\ Cardinality(DOMAIN typeMap) = 16
        /\ typeMap["time"] = typeMap["duration"]
        /\ {"int8", "uint8", "int16", "uint16", "int32", "uint32", "int64",
            "uint64", "bool", "byte", "char", "string", "time", "duration"}
               \subseteq DOMAIN typeMap
        /\ call.fieldType \in DOMAIN typeMap
               => ret = [err |-> "none", val |-> typeMap[call.fieldType]]
        /\ call.fieldType \notin DOMAIN typeMap => ret.err # "none"

\* C24, the part that holds: the type-declaration pass begins only after
\* the build has resolved and writes nothing when the build failed
TypesPassAfterBuild ==
    (proc.pc = "types" \/ TypesFiles \cap DOMAIN disk # {})
    => calls[1].status = "resolved"

\* C24: with the --types flag, once the build has resolved and main has
\* returned the type-declaration pass has run, with the --pkg argument and
\* without it; the pass runs only after the build has resolved.
C24_TypesPassRunsAfterBuild ==
    /\ TypesPassAfterBuild
    /\ (proc.exited /\ proc.pc = "returned" /\ proc.types)
       => TypesFiles \subseteq DOMAIN disk

(***************************************************************************)
(* The build of one package whose cache entry comes from the cache loader  *)
(* (so that it can hold actions and their sub-messages)                    *)
(***************************************************************************)
\* the string a definition name <<base, suffix>> stands for
NameString(name) ==
    CASE name = <<"Fib", "Goal">> -> "FibGoal"
      [] name = <<"Fib", "Result">> -> "FibResult"
      [] name = <<"Fib", "Feedback">> -> "FibFeedback"
      [] name = <<"Pose", "">> -> "Pose"

\* the cache with its message names as strings
WithNameStrings(cache) ==
    [ p \in DOMAIN cache |->
        [ localDeps |-> cache[p].localDeps,
          messages  |-> [ i \in DOMAIN cache[p].messages |->
                            NameString(cache[p].messages[i]) ],
          services  |-> cache[p].services,
          actions   |-> cache[p].actions,
          synthesized |-> { NameString(m) : m \in
                              { n \in Range(cache[p].messages) :
                                  cache[p].file[n] = "null" } } ] ]

LoadedCaches ==
    { WithNameStrings(loadMessagesInCache(<<info>>)) : info \in IndexEntries }

InitWrite ==
    /\ packageCache \in LoadedCaches
    /\ call = NoCall
    /\ ret = NoRet
    /\ IdleBuild
    /\ IdleSide

SpecWrite == InitWrite /\ [][Next]_vars

HasLine(text, line) == \E i \in DOMAIN text : text[i] = line

\* C23: the msg directory and msg/_index.js exist only for a package with a
\* message or an action and the srv directory and srv/_index.js only for a
\* package with a service; once initPackageWrite is through they exist in
\* exactly those cases and the package _index.js refers to ./msg/_index.js
\* and ./srv/_index.js in exactly those cases; a binding file is written
\* only into a directory that the build of its package has created.
C23_DirectoriesAndIndexes ==
    /\ \A p \in DOMAIN packageCache :
          LET hasMessages == packageCache[p].messages # <<>>
                                \/ packageCache[p].actions # <<>>
              hasServices == packageCache[p].services # <<>>
              index == <<p, "", "_index.js">>
          IN  /\ <<p, "msg", "">> \in DOMAIN disk => hasMessages
              /\ <<p, "msg", "_index.js">> \in DOMAIN disk => hasMessages
              /\ <<p, "srv", "">> \in DOMAIN disk => hasServices
              /\ <<p, "srv", "_index.js">> \in DOMAIN disk => hasServices
              /\ index \in DOMAIN disk
                 => /\ hasMessages => {<<p, "msg", "">>, <<p, "msg", "_index.js">>}
                                          \subseteq DOMAIN disk
                    /\ hasServices => {<<p, "srv", "">>, <<p, "srv", "_index.js">>}
                                          \subseteq DOMAIN disk
                    /\ HasLine(content[index], <<1, <<"msg", "./msg/_index.js">>>>)
                          <=> hasMessages
                    /\ HasLine(content[index], <<1, <<"srv", "./srv/_index.js">>>>)
                          <=> hasServices
    /\ \A t \in DOMAIN tasks : \A f \in tasks[t].pending :
          /\ <<f[1], f[2], "">> \in DOMAIN disk
          /\ <<f[1], "", "">> \in DOMAIN disk
    /\ \A f \in DOMAIN disk :
          f[3] \notin {"", "_index.js"} => <<f[1], f[2], "">> \in DOMAIN disk

\* a package whose only definition is an action was built: it has a msg
\* directory holding the sub-messages and no srv directory
C23_Witness ==
    \E p \in DOMAIN packageCache :
        /\ packageCache[p].actions # <<>>
        /\ packageCache[p].services = <<>>
        /\ "FibGoal" \in packageCache[p].synthesized
        /\ loadingPkgs[p] = LOADED
        /\ <<p, "msg", "FibGoal">> \in DOMAIN disk
        /\ <<p, "srv", "">> \notin DOMAIN disk

(***************************************************************************)
(* DeserializeStream fed the frames of a peer in chunks of every size      *)
(***************************************************************************)
InitStream ==
    /\ packageCache = <<>>
    /\ call = NoCall
    /\ ret = NoRet
    /\ IdleBuild
    /\ others = NewInstance
    /\ proc = NoProcess
    /\ stream = NewStream
    /\ ros = NoRos
    /\ inits = <<>>
    /\ wait = NoWait
    /\ \E frames \in FrameSeqs, service \in BOOLEAN :
          socket = [ frames |-> frames, service |-> service,
                     wire |-> Wire(frames, service, 1), fed |-> 0,
                     splitLength |-> FALSE ]

\* the client of a service sets the stream up before it reads a response
setServiceRespDeserialize ==
    /\ socket.service
    /\ ~stream.deserializeServiceResp
    /\ stream' = [stream EXCEPT !.deserializeServiceResp = TRUE]
    /\ UNCHANGED <<packageCache, call, ret, buildVars, others, proc, socket,
                   ros, inits, wait>>

\* the next chunkLen bytes arrive: one call of _transform
Transform(chunkLen) ==
    /\ socket.service => stream.deserializeServiceResp
    /\ socket.fed + chunkLen <= Len(socket.wire)
    /\ \E s \in { transform(stream, SubSeq(socket.wire, socket.fed + 1,
                                           socket.fed + chunkLen)) } :
          /\ stream' = s
          /\ socket' = [socket EXCEPT
                 !.fed = @ + chunkLen,
                 !.splitLength = @ \/ (~s.inBody /\ s.messageBuffer # <<>>)]
    /\ UNCHANGED <<packageCache, call, ret, buildVars, others, proc, ros,
                   inits, wait>>

NextStream ==
    \/ setServiceRespDeserialize
    \/ \E chunkLen \in 1 .. MaxFrames * (MaxBody + 5) : Transform(chunkLen)

SpecStream == InitStream /\ [][NextStream]_vars

\* the offset in the wire at which frame i of a plain stream ends
RECURSIVE FrameEnd(_, _)
FrameEnd(frames, i) ==
    IF i = 0 THEN 0 ELSE FrameEnd(frames, i - 1) + 4 + Len(frames[i])

\* C17: whatever the chunks, the messages emitted so far are the bodies of
\* the frames that have arrived in full, one message per frame, in order;
\* once the whole stream has arrived they are the bodies of all frames.
C17_OneMessagePerFrame ==
    ~socket.service =>
        LET arrived == { i \in DOMAIN socket.frames :
                           FrameEnd(socket.frames, i) <= socket.fed }
        IN  stream.emitted =
                [ i \in 1 .. Cardinality(arrived) |-> <<socket.frames[i]>> ]

\* a stream with an empty and a non-empty body has arrived in full, one of
\* its chunks having ended inside a length field
C17_Witness ==
    /\ ~socket.service
    /\ socket.fed = Len(socket.wire)
    /\ socket.splitLength
    /\ <<>> \in Range(socket.frames)
    /\ \E i \in DOMAIN socket.frames : Len(socket.frames[i]) = MaxBody
    /\ Len(stream.emitted) = Len(socket.frames)
    /\ socket.frames[Len(socket.frames)] = <<>>

(***************************************************************************)
(* initNode, reset and shutdown called in every order                      *)
(***************************************************************************)
InitNode ==
    /\ packageCache = <<>>
    /\ call = NoCall
    /\ ret = NoRet
    /\ IdleBuild
    /\ IdleSide

\* a continuation that runs before the turn ends is runnable: an initNode
\* call awaits the promise of _loadOnTheFlyMessages(undefined), which is
\* resolved already.  Timers and network callbacks run after it.
MicrotaskPending == \E i \in DOMAIN inits : inits[i].pc = "yield"

\* the synchronous part of initNode, up to "await
\* this._loadOnTheFlyMessages(options.onTheFly)" for a call that constructs
\* the node
initNode(nodeName, anonymous, onTheFly, timeout, now) ==
    /\ Len(inits) < MaxInits
    /\ IF nodeName.typeof # "string" \/ nodeName.value = ""
       THEN /\ inits' = Append(inits,
                   [NewInit(nodeName, resolveNodeName("", FALSE, 0), timeout)
                      EXCEPT !.pc = "rejected",
                             !.err = IF nodeName.typeof # "string"
                                     THEN "The node name must be a string"
                                     ELSE "The node name must not be empty!"])
            /\ ros' = ros
       ELSE \E resolvedName \in {resolveNodeName(nodeName.value, anonymous, now)} :
            \E c \in {claimNode(ros, resolvedName)} :
               /\ ros' = c.ros
               /\ inits' = Append(inits,
                     [NewInit(nodeName, resolvedName, timeout) EXCEPT
                        !.pc = CASE c.outcome = "handle" -> "resolved"
                                 [] c.outcome = "exists" -> "rejected"
                                 [] onTheFly -> "onTheFly"
                                 [] OTHER -> "yield",
                        !.handle = IF c.outcome = "handle" THEN ros.node
                                   ELSE 0,
                        !.err = IF c.outcome = "exists"
                                THEN "already exists" ELSE "none"])
    /\ UNCHANGED <<packageCache, call, ret, buildVars, others, proc, stream,
                   socket, wait>>

\* waitForMaster as call i runs it: maxTimeout is options.timeout.  The
\* calls of this specification pass -1 or 0, for which the test of the
\* elapsed time does not depend on the clock.
WaitOf(i, pc) == [NoWait EXCEPT !.pc = pc, !.maxTimeout = inits[i].timeout]

\* call i after waitForMaster ran up to its next await (w.pc), returned or
\* threw; "catch(err) { if (this.ok()) await this.shutdown(); throw err }"
Continue(i, w, r) ==
    [ inits |-> [inits EXCEPT ![i] =
          CASE w.pc = "thrown" ->
                   [@ EXCEPT !.pc = IF ok(r) THEN "shutdown" ELSE "rejected",
                             !.asked = 0, !.err = w.err]
            [] w.pc = "returned" -> [@ EXCEPT !.pc = "rosOptions", !.asked = 0]
            [] OTHER -> [@ EXCEPT !.pc = w.pc, !.asked = w.asked]],
      ros |-> IF w.pc = "thrown" THEN ThisNodeShutdown(r) ELSE r ]

\* the promise a call awaits outside waitForMaster resolves: the call goes
\* on to its next await (the first sleep of waitForMaster after
\* _loadOnTheFlyMessages), or returns this.getNodeHandle() after the last
AwaitResolves(i) ==
    /\ inits[i].pc \in {"yield", "onTheFly", "rosOptions", "rosTime"}
    /\ inits[i].pc # "yield" => ~MicrotaskPending
    /\ inits' = [inits EXCEPT ![i] =
           CASE inits[i].pc = "rosTime" ->
                    [@ EXCEPT !.pc = "resolved", !.handle = ros.node]
             [] inits[i].pc = "rosOptions" -> [@ EXCEPT !.pc = "rosTime"]
             [] OTHER -> [@ EXCEPT !.pc = "sleepFirst"]]
    /\ UNCHANGED <<packageCache, call, ret, buildVars, others, proc, stream,
                   socket, wait, ros>>

\* the promise a call awaits outside waitForMaster rejects: the catch
\* block shuts the node down when ThisNode.ok()
AwaitRejects(i) ==
    /\ inits[i].pc \in {"onTheFly", "rosOptions", "rosTime"}
    /\ ~MicrotaskPending
    /\ inits' = [inits EXCEPT ![i] =
           [@ EXCEPT !.pc = IF ok(ros) THEN "shutdown" ELSE "rejected",
                     !.err = "initialization"]]
    /\ ros' = ThisNodeShutdown(ros)
    /\ UNCHANGED <<packageCache, call, ret, buildVars, others, proc, stream,
                   socket, wait>>

\* a sleep of waitForMaster ends (a sleep that is followed by the same
\* sleep is left out: it changes nothing)
WaitSleepEnds(i) ==
    /\ inits[i].pc \in {"sleepFirst", "sleepServers", "sleepRetry"}
    /\ ~MicrotaskPending
    /\ \E w \in {IF inits[i].pc = "sleepRetry"
                 THEN masterLoop(WaitOf(i, inits[i].pc), ros)
                 ELSE serversLoop(WaitOf(i, inits[i].pc), ros)} :
       \E c \in {Continue(i, w, ros)} :
          /\ inits' = c.inits
          /\ ros' = c.ros
    /\ UNCHANGED <<packageCache, call, ret, buildVars, others, proc, stream,
                   socket, wait>>

\* the master answers the getMasterUri call of call i
MasterAnswers(i) ==
    /\ inits[i].pc = "getMasterUri"
    /\ ~MicrotaskPending
    /\ \E r \in {MasterReached(ros, inits[i].asked)} :
       \E c \in {Continue(i, afterBreak(WaitOf(i, "getMasterUri"), r), r)} :
          /\ inits' = c.inits
          /\ ros' = c.ros
    /\ UNCHANGED <<packageCache, call, ret, buildVars, others, proc, stream,
                   socket, wait>>

\* the getMasterUri call of call i fails
MasterUnreachable(i) ==
    /\ inits[i].pc = "getMasterUri"
    /\ ~MicrotaskPending
    /\ \E c \in {Continue(i, catchAttempt(WaitOf(i, "getMasterUri"), ros), ros)} :
          /\ inits' = c.inits
          /\ ros' = c.ros
    /\ UNCHANGED <<packageCache, call, ret, buildVars, others, proc, stream,
                   socket, wait>>

\* "await this.shutdown()" of the catch block returns: "throw err"
ShutdownResolves(i) ==
    /\ inits[i].pc = "shutdown"
    /\ ~MicrotaskPending
    /\ inits' = [inits EXCEPT ![i].pc = "rejected"]
    /\ UNCHANGED <<packageCache, call, ret, buildVars, others, proc, stream,
                   socket, wait, ros>>

\* the slave API server of the node listens
ServersReady ==
    /\ ok(ros)
    /\ ~ros.nodes[ros.node].serversReady
    /\ ros' = [ros EXCEPT !.nodes[ros.node].serversReady = TRUE]
    /\ UNCHANGED <<packageCache, call, ret, buildVars, others, proc, stream,
                   socket, inits, wait>>

\* that event in a process that makes initNode calls
NodeServersReady == ~MicrotaskPending /\ ServersReady

reset ==
    /\ ros.resets < MaxResets
    /\ ros' = [ros EXCEPT !.node = 0, !.resets = @ + 1]
    /\ UNCHANGED <<packageCache, call, ret, buildVars, others, proc, stream, socket, wait,
                   inits>>

shutdown ==
    /\ ok(ros)
    /\ ros' = ThisNodeShutdown(ros)
    /\ UNCHANGED <<packageCache, call, ret, buildVars, others, proc, stream, socket, wait,
                   inits>>

NextNode ==
    \/ \E nodeName \in NodeNameArgs, anonymous, onTheFly \in BOOLEAN,
          timeout \in {-1, 0}, now \in 1 .. MaxNow :
          initNode(nodeName, anonymous, onTheFly, timeout, now)
    \/ \E i \in DOMAIN inits : AwaitResolves(i)
    \/ \E i \in DOMAIN inits : AwaitRejects(i)
    \/ \E i \in DOMAIN inits : WaitSleepEnds(i)
    \/ \E i \in DOMAIN inits : MasterAnswers(i)
    \/ \E i \in DOMAIN inits : MasterUnreachable(i)
    \/ \E i \in DOMAIN inits : ShutdownResolves(i)
    \/ NodeServersReady
    \/ reset
    \/ shutdown

SpecNode == InitNode /\ [][NextNode]_vars

\* an initNode call made in this step while a node is set
C18_CallOnExistingNode ==
    (Len(inits') = Len(inits) + 1 /\ ros.node # 0
       /\ inits'[Len(inits')].nodeName.typeof = "string"
       /\ inits'[Len(inits')].nodeName.value # "")
    => LET i == inits'[Len(inits')]
       IN  /\ ros' = ros
           /\ IF i.resolvedName = getNodeName(ros)
              THEN i.pc = "resolved" /\ i.handle = ros.node
              ELSE i.pc = "rejected" /\ i.err = "already exists"

\* C18: between two resets at most one node is constructed, and it is the
\* one ThisNode.node refers to; an initNode call that finds a node set
\* returns a handle to it when the resolved names are equal and rejects
\* otherwise, constructing no node and leaving ThisNode.node as it is.
C18_AtMostOneNode ==
    /\ [](/\ \A m, n \in DOMAIN ros.nodes :
                ros.nodes[m].resets = ros.nodes[n].resets => m = n
          /\ ros.node # 0 => ros.nodes[ros.node].resets = ros.resets)
    /\ [][C18_CallOnExistingNode]_vars

\* three calls and no reset: the first constructed the node, one got a
\* handle to it, one was rejected; one node exists
C18_Witness ==
    /\ ros.resets = 0
    /\ Len(ros.nodes) = 1
    /\ \E i, j \in DOMAIN inits :
          /\ i > 1 /\ j > 1
          /\ inits[i].pc = "resolved" /\ inits[i].handle = 1
          /\ inits[i].resolvedName = inits[1].resolvedName
          /\ inits[j].pc = "rejected" /\ inits[j].err = "already exists"

\* C29: every initNode call that has resolved returned a handle to a node
\* whose connection to the master is established, a second call with the
\* name of the node made while the first call waits for the master
\* included.
C29_ResolvedAfterMaster ==
    \A i \in DOMAIN inits :
        inits[i].pc = "resolved" => ros.nodes[inits[i].handle].master

(***************************************************************************)
(* One waitForMaster call on a node just constructed.  The clock advances  *)
(* while the call sleeps or awaits the master; the slave API server comes  *)
(* up, the master answers or not, and the node is shut down, at any time.  *)
(***************************************************************************)
InitWait ==
    /\ packageCache = <<>>
    /\ call = NoCall
    /\ ret = NoRet
    /\ IdleBuild
    /\ others = NewInstance
    /\ proc = NoProcess
    /\ stream = NewStream
    /\ socket = NoSocket
    /\ inits = <<>>
    /\ ros = claimNode(NoRos, resolveNodeName("a", FALSE, 0)).ros
    /\ \E now \in 0 .. 1 : wait = [NoWait EXCEPT !.now = now]

\* waitForMaster(timeout, maxTimeout) up to "await sleep(timeout)"
waitForMaster(timeout, maxTimeout) ==
    /\ wait.pc = "idle"
    /\ wait' = [wait EXCEPT !.pc = "sleepFirst", !.timeout = timeout,
                            !.maxTimeout = maxTimeout, !.startTime = wait.now]
    /\ UNCHANGED <<packageCache, call, ret, buildVars, others, proc, stream,
                   socket, ros, inits>>

\* the timer of sleep(timeout) fires, on time or late
SleepEnds(late) ==
    /\ wait.pc \in {"sleepFirst", "sleepServers", "sleepRetry"}
    /\ wait.now + wait.timeout + late <= MaxClock
    /\ \E w \in {[wait EXCEPT !.now = @ + wait.timeout + late]} :
          wait' = IF wait.pc = "sleepRetry" THEN masterLoop(w, ros)
                  ELSE serversLoop(w, ros)
    /\ UNCHANGED <<packageCache, call, ret, buildVars, others, proc, stream,
                   socket, ros, inits>>

\* getMasterUri({ maxAttempts: 1 }) resolves after took ticks
GetMasterUriResolves(took) ==
    /\ wait.pc = "getMasterUri"
    /\ wait.now + took <= MaxClock
    /\ ros' = MasterReached(ros, wait.asked)
    /\ wait' = afterBreak([wait EXCEPT !.now = @ + took], ros)
    /\ UNCHANGED <<packageCache, call, ret, buildVars, others, proc, stream,
                   socket, inits>>

\* getMasterUri({ maxAttempts: 1 }) rejects after took ticks
GetMasterUriRejects(took) ==
    /\ wait.pc = "getMasterUri"
    /\ wait.now + took <= MaxClock
    /\ wait' = catchAttempt([wait EXCEPT !.now = @ + took], ros)
    /\ UNCHANGED <<packageCache, call, ret, buildVars, others, proc, stream,
                   socket, ros, inits>>

NextWait ==
    \/ \E timeout \in 1 .. MaxSleep, maxTimeout \in -1 .. MaxWait :
          waitForMaster(timeout, maxTimeout)
    \/ \E late \in 0 .. 1 : SleepEnds(late)
    \/ \E took \in 0 .. 1 : GetMasterUriResolves(took)
    \/ \E took \in 0 .. 1 : GetMasterUriRejects(took)
    \/ ServersReady
    \/ shutdown

SpecWait == InitWait /\ [][NextWait]_vars

TimeoutErrors ==
    {"Unable to setup slave API server.", "Registration with master timed out."}

\* with a negative maxTimeout the call throws no timeout error: it throws
\* only when the node is shut down and returns only once the master has
\* answered
NegativeRetriesForever ==
    (wait.pc # "idle" /\ wait.maxTimeout < 0)
    => /\ wait.err \notin TimeoutErrors
       /\ wait.pc = "thrown" => ~ok(ros)
       /\ wait.pc = "returned" => ros.nodes[ros.node].master

\* with maxTimeout 0 a call that fails with a timeout error has made one
\* attempt to contact the master
ZeroTriesOnce ==
    (wait.pc = "thrown" /\ wait.maxTimeout = 0 /\ wait.err \in TimeoutErrors)
    => wait.attempts = 1

\* with a positive maxTimeout a timeout error is thrown only after that
\* much time, and no attempt but the first begins after it
PositiveStopsRetrying ==
    (wait.pc # "idle" /\ wait.maxTimeout > 0)
    => /\ wait.err \in TimeoutErrors
          => wait.now - wait.startTime >= wait.maxTimeout
       /\ wait.attempts >= 2
          => wait.lastAttempt - wait.startTime < wait.maxTimeout

\* C30: waitForMaster honours maxTimeout: negative, it never fails with a
\* timeout error and retries until the master is reached or the node is
\* shut down; 0, it makes exactly one attempt to contact the master before
\* it fails with a timeout; positive, it stops retrying once that much time
\* has elapsed.
C30_HonoursMaxTimeout ==
    /\ NegativeRetriesForever
    /\ ZeroTriesOnce
    /\ PositiveStopsRetrying

(***************************************************************************)
(* The resolver functions applied to bounded inputs                        *)
(***************************************************************************)
InitDeps ==
    /\ packageCache \in Caches
    /\ call = NoCall
    /\ ret = NoRet
    /\ IdleBuild
    /\ IdleSide

\* the functions keep no state between calls: one application per behaviour
CallGetFullDependencySet(p) ==
    /\ call = NoCall
    /\ call' = [fn |-> "getFullDependencySet", pkg |-> p, list |-> <<>>]
    /\ LET r == getFullDependencySet(p, packageCache)
       IN  ret' = [err |-> r.err, list |-> r.deps]
    /\ UNCHANGED <<sideVars, packageCache, buildVars>>

CallSortPackageList(l) ==
    /\ call = NoCall
    /\ call' = [fn |-> "sortPackageList", pkg |-> 0, list |-> l]
    /\ ret' = sortPackageList(l, packageCache)
    /\ UNCHANGED <<sideVars, packageCache, buildVars>>

NextDeps ==
    \/ \E p \in DOMAIN packageCache : CallGetFullDependencySet(p)
    \/ \E l \in InjSeqs(DOMAIN packageCache, MaxList) : CallSortPackageList(l)

SpecDeps == InitDeps /\ [][NextDeps]_vars

\* C1: for a cache without cycles and any list of its packages,
\* sortPackageList returns an order in which B comes before A whenever A
\* transitively depends on B.
C1_SortPlacesDependenciesFirst ==
    (call.fn = "sortPackageList" /\ WellFormed(packageCache)) =>
        /\ ret.err = "none"
        /\ \A a, b \in Range(call.list) :
              DependsOn(packageCache, a, b) =>
                  IndexOf(ret.list, b) < IndexOf(ret.list, a)

\* C2: getFullDependencySet(A) fails with the cycle error if and only if
\* some path of dependency edges from a direct dependency of A leads back
\* to A.
C2_CycleErrorIffPathBack ==
    (call.fn = "getFullDependencySet" /\ Closed(packageCache)) =>
        (ret.err = "cycle" <=> call.pkg \in Reachable(packageCache, call.pkg))

\* C3: for a cache without cycles, getFullDependencySet(P) returns exactly
\* the packages reachable from P by one or more localDeps edges, never P
\* itself, each of them once.
C3_ClosureIsReachableSet ==
    (call.fn = "getFullDependencySet" /\ WellFormed(packageCache)) =>
        /\ ret.err = "none"
        /\ Range(ret.list) = Reachable(packageCache, call.pkg)
        /\ call.pkg \notin Range(ret.list)
        /\ IsInjective(ret.list)

\* a package reached along two paths: P -> a -> b and P -> b
C3_Witness ==
    /\ call.fn = "getFullDependencySet"
    /\ WellFormed(packageCache)
    /\ ret.err = "none"
    /\ \E a, b \in Range(LocalDeps(packageCache, call.pkg)) :
          a # b /\ b \in Range(LocalDeps(packageCache, a))

\* C21: for two packages of the list that depend on each other the sort
\* fails with the error of the ordering phase ("while sorting"), which is
\* not the cycle error of getFullDependencySet; it returns no order.
C21_MutualPairFailsWhileSorting ==
    ( /\ call.fn = "sortPackageList"
      /\ Closed(packageCache)
      /\ \E a, b \in Range(call.list) :
            /\ a # b
            /\ b \in Range(LocalDeps(packageCache, a))
            /\ a \in Range(LocalDeps(packageCache, b)) )
    => ret.err = "sortcycle"

\* C22: getFullDependencySet returns the closure or raises the cycle
\* error for every package of every cache whose references all exist, a
\* cache with a cycle beside the package included.
C22_ClosureOrCycleError ==
    (call.fn = "getFullDependencySet" /\ Closed(packageCache)) =>
        \/ ret.err = "cycle"
        \/ ret.err = "none" /\ Range(ret.list) = Reachable(packageCache, call.pkg)

====
